---- MODULE Spec2Model ----
(***************************************************************************)
(* A model of dRAG: the bounded, SSRF-guarded breadth-first crawler        *)
(* (crawlWebsite and its helpers) and the crawl entry point                *)
(* (crawlAndIndex).                                                        *)
(*                                                                         *)
(* A URL string is modelled by the components the WHATWG parser would     *)
(* split it into: a record [valid, scheme, host, port, path, hash, ext].   *)
(* host is the sequence of dot-separated labels as written (case kept),    *)
(* port is the port as written ("" when none), path "" is a URL written    *)
(* without the trailing slash, hash says whether a #fragment is present    *)
(* and ext is the file extension the string ends with ("" when none).      *)
(***************************************************************************)
EXTENDS Integers, Sequences, FiniteSets, TLC

VARIABLES
    \* --- the call: who calls, with what, against which site ---
    mode,       \* "tool": crawlAndIndex(input); "direct": crawlWebsite(startUrl, options)
    site,       \* the web site the crawl runs against (a name of Sites)
    startUrl,   \* input.url / startUrl
    optMaxDepth,\* input.max_depth / options.maxDepth: [kind, val]
    optMaxPages,\* options.maxPages: [given, val]
    optDomains, \* options.allowedDomains: [given, val]
    \* --- crawlWebsite's locals ---
    pc,         \* where the call stands (see PcValues)
    maxDepth,   \* const maxDepth
    maxPages,   \* const maxPages
    domains,    \* const domains
    visited,    \* const visited = new Set()
    pages,      \* const pages: each [url, links, depth]; depth is a ghost field
    queue,      \* const queue: each [url, depth]
    item,       \* the dequeued { url, depth }
    \* --- fetchAndParsePage / fetchWithoutRedirect ---
    reqUrl,     \* the URL of the request (and body read) in flight
    resp1,      \* the response to the initial request
    resp2,      \* the response to the redirect-hop request
    timerArmed, \* the setTimeout of fetchAndParsePage is set and not cleared
    \* --- crawlAndIndex ---
    result,     \* the CrawlAndIndexResult returned
    storeCount, \* number of records added to the vector store
    \* --- history ---
    reqCount,   \* requests issued for the dequeued item
    requests,   \* requests issued by this crawl so far
    sinceDelay, \* requests issued since the last completed sleep
    outcome,    \* the last fetchAndParsePage: "pending", "page", "null", "error"
    allOk,      \* every fetch so far was a plain 200 HTML page
    \* --- URL Guard harness ---
    gUrl,       \* the URL string under classification
    gDone,      \* isBlockedUrl has returned
    gBlocked,   \* the value isBlockedUrl returned
    \* --- deleteSource / deleteByUrl ---
    dPc,        \* where the call stands (see the delete section)
    dUrl,       \* input.url
    collection, \* the records of the collection, in the order col.get pages them
    collection0,\* the collection when deleteSource was called (history)
    dOffset,    \* let offset
    totalDeleted,\* let totalDeleted
    dResult,    \* the DeleteSourceResult returned
    \* --- searchDocs / searchSimilar ---
    sPc,        \* where the call stands (see the search section)
    sInput,     \* input: [query, top_k, hybrid, expand_query]
    sCollection,\* the records of the collection the search runs against
    topK,       \* validatedTopK / options.topK, a JavaScript number
    variants,   \* how many query variants semanticSearch has still to run
    allResults, \* semanticSearch: const allResults
    semanticResults, \* searchSimilar: const semanticResults
    kOffset,    \* keywordSearch: let offset
    allScored,  \* keywordSearch: const allScored
    keywordResults,  \* searchSimilar: const keywordResults
    scans,      \* pages of the collection keywordSearch has read (history)
    fused,      \* reciprocalRankFusion has run (history)
    sResult,    \* the SearchDocsResult returned, or the error thrown
    \* --- chunkPages / addChunks / generateEmbeddings ---
    iPc,        \* where the ingestion stands (see the ingestion section)
    iPages,     \* the pages given to chunkPages
    iOptions,   \* the options given to chunkPages: [chunkSize, chunkOverlap, semantic]
    addPolicy,  \* what the store's add does with an ID it already holds
    round,      \* which ingestion of iPages this is: 1 or 2 (history)
    allChunks,  \* chunkPages: const allChunks, as returned
    allChunks1, \* the chunks of the first ingestion (history)
    carried,    \* per page, the overlapSize of each chunk closed for size (ghost)
    documents,  \* addChunks: const documents
    embeddings, \* generateEmbeddings: const embeddings
    embedded,   \* the texts sent to the embedding service, in order (history)
    store,      \* the records of the collection
    store1,     \* the collection after the first ingestion (history)
    iResult,    \* what addChunks returned: [threw, count]
    \* --- listSources ---
    lPc,        \* where the listSources call stands (see the listing section)
    lCollection, \* the metadata of the records of the collection, in store order
    lOffset,    \* listSources: let offset
    sourceMap,  \* listSources: const sourceMap, its entries in insertion order
    lResult,    \* the ListSourcesResult returned
    \* --- getCollection ---
    hPc,        \* per caller, where its getCollection call stands
    colHandle,  \* vectorstore.ts 10: let collection; 0 is null, c the Collection
                \* object that caller c's getOrCreateCollection resolved to
    hClient,    \* vectorstore.ts 9: let client; 0 is null, c the client caller c made
    setups,     \* getOrCreateCollection calls started so far (history)
    hGot,       \* per caller, the handle its last call returned (0: none yet)
    \* --- slidingWindowChunk, step by step ---
    wPc,        \* where the slidingWindowChunk call stands (see its section)
    wWords,     \* slidingWindowChunk: words.length
    wSize,      \* slidingWindowChunk: chunkSize
    wOverlap,   \* slidingWindowChunk: chunkOverlap
    wStart,     \* slidingWindowChunk: let start
    wChunks,    \* slidingWindowChunk: const chunks, each as [from, to) in words
    \* --- generateEmbeddings, call by call ---
    ePc,        \* where the generateEmbeddings call stands (see its section)
    eTexts,     \* generateEmbeddings: texts
    eI,         \* generateEmbeddings: let i
    eCalls,     \* the generateEmbedding calls started so far: [text, state]
    eEmbeddings, \* generateEmbeddings: const embeddings
    eSlept      \* the inter-batch sleep has elapsed since the last batch (history)

inputVars == <<mode, site, startUrl, optMaxDepth, optMaxPages, optDomains>>
crawlVars == <<pc, maxDepth, maxPages, domains, visited, pages, queue, item>>
fetchVars == <<reqUrl, resp1, resp2>>
timerVars == <<timerArmed>>
toolVars  == <<result, storeCount>>
histVars  == <<reqCount, requests, sinceDelay, outcome, allOk>>
guardVars == <<gUrl, gDone, gBlocked>>
deleteVars == <<dPc, dUrl, collection, collection0, dOffset, totalDeleted, dResult>>
searchVars == <<sPc, sInput, sCollection, topK, variants, allResults,
                semanticResults, kOffset, allScored, keywordResults, scans,
                fused, sResult>>

ingestVars == <<iPc, iPages, iOptions, addPolicy, round, allChunks, allChunks1,
                carried,
                documents, embeddings, embedded, store, store1, iResult>>
listVars == <<lPc, lCollection, lOffset, sourceMap, lResult>>
handleVars == <<hPc, colHandle, hClient, setups, hGot>>
slideVars == <<wPc, wWords, wSize, wOverlap, wStart, wChunks>>
embedVars == <<ePc, eTexts, eI, eCalls, eEmbeddings, eSlept>>
stepVars == <<slideVars, embedVars>>
auxVars == <<ingestVars, listVars, handleVars, stepVars>>

vars == <<inputVars, crawlVars, fetchVars, timerVars, toolVars, histVars, guardVars,
          deleteVars, searchVars, auxVars>>

(***************************************************************************)
(* URL strings                                                             *)
(***************************************************************************)
MkUrl(scheme, host, port, path) ==
    [valid |-> TRUE, scheme |-> scheme, host |-> host, port |-> port,
     path |-> path, hash |-> FALSE, ext |-> ""]

\* A string the URL parser rejects.
InvalidUrl ==
    [valid |-> FALSE, scheme |-> "", host |-> <<>>, port |-> "",
     path |-> "", hash |-> FALSE, ext |-> ""]

\* String.prototype.toLowerCase on one host label / extension.
ToLowerCase(s) ==
    CASE s = "LOCALHOST" -> "localhost"
      [] s = "Example"   -> "example"
      [] s = "LOCAL"     -> "local"
      [] s = "PDF"       -> "pdf"
      [] OTHER           -> s

LowerHost(h) == [i \in 1..Len(h) |-> ToLowerCase(h[i])]

\* The default port of a special scheme.
DefaultPort(scheme) ==
    CASE scheme = "http"  -> "80"
      [] scheme = "https" -> "443"
      [] scheme = "ftp"   -> "21"
      [] OTHER            -> ""

\* new URL(url): ok = FALSE stands for the TypeError the constructor throws.
\* The parser lower-cases the host of an http(s) URL, drops a port equal to
\* the scheme's default and gives an empty path as "/".
ParseUrl(u) ==
    [ok       |-> u.valid,
     protocol |-> u.scheme,
     hostname |-> LowerHost(u.host),
     port     |-> IF u.port = DefaultPort(u.scheme) THEN "" ELSE u.port,
     pathname |-> IF u.path = "" THEN "/" ELSE u.path,
     hash     |-> u.hash]

(***************************************************************************)
(* URL Guard                                                               *)
(***************************************************************************)
BLOCKED_HOSTNAMES ==
    { <<"localhost">>,
      <<"127", "0", "0", "1">>,
      <<"0", "0", "0", "0">>,
      <<"[::1]">>,
      <<"metadata", "google", "internal">>,
      <<"169", "254", "169", "254">> }

\* \d+ on one label (the parser has already bounded a numeric label of an
\* IPv4 host by 255).
IsDigits(l) == \E n \in 0..255 : l = ToString(n)

\* (1[6-9]|2\d|3[0-1]) on one label.
Is172Second(l) ==
    \/ \E n \in 16..19 : l = ToString(n)
    \/ \E n \in 20..29 : l = ToString(n)
    \/ \E n \in 30..31 : l = ToString(n)

\* BLOCKED_HOSTNAME_PATTERNS[i].test(hostname)
PatternTest(i, h) ==
    CASE i = 1 -> Len(h) = 4 /\ h[1] = "10"
                  /\ IsDigits(h[2]) /\ IsDigits(h[3]) /\ IsDigits(h[4])
      [] i = 2 -> Len(h) = 4 /\ h[1] = "172" /\ Is172Second(h[2])
                  /\ IsDigits(h[3]) /\ IsDigits(h[4])
      [] i = 3 -> Len(h) = 4 /\ h[1] = "192" /\ h[2] = "168"
                  /\ IsDigits(h[3]) /\ IsDigits(h[4])
      [] i = 4 -> Len(h) >= 2 /\ h[Len(h)] = "local"
      [] i = 5 -> Len(h) >= 2 /\ h[Len(h)] = "internal"
      [] OTHER -> FALSE

NumPatterns == 5

isBlockedUrl(url) ==
    LET parsed == ParseUrl(url) IN
    IF ~parsed.ok THEN TRUE
    ELSE LET hostname == LowerHost(parsed.hostname) IN
         IF hostname \in BLOCKED_HOSTNAMES THEN TRUE
         ELSE IF \E i \in 1..NumPatterns : PatternTest(i, hostname) THEN TRUE
         ELSE IF parsed.port # "" /\ parsed.port \notin {"80", "443", ""} THEN TRUE
         ELSE FALSE

(***************************************************************************)
(* Web sites the crawl runs against.  SiteHtml gives, for the page served   *)
(* at a URL, the href values of its <a> elements in document order;        *)
(* SiteLocations gives the Location values the server may send with a 3xx. *)
(***************************************************************************)
ExampleCom == <<"example", "com">>

Page(path) == MkUrl("https", ExampleCom, "", path)

\* Site "abc": A links to B and C.
UrlA == Page("/")
UrlB == Page("/b")
UrlC == Page("/c")

\* Site "diamond": S links to X and Y, X to Z and back to S, Y to Z, Z to W.
UrlS == Page("/s")
UrlX == Page("/x")
UrlY == Page("/y")
UrlZ == Page("/z")
UrlW == Page("/w")

\* Site "chain": P(i) links to P(i+1) and back to P(0); P(ChainLen) to P(0).
ChainLen == 6
P(i) == Page(ToString(i))

\* Site "mixed".
HomeRaw    == Page("")                                   \* https://example.com
Home       == Page("/")                                  \* https://example.com/
HomeUpper  == MkUrl("https", <<"Example", "com">>, "443", "/")
PageB      == Page("/b")
PageBFrag  == [Page("/b") EXCEPT !.hash = TRUE]          \* /b#section
PageD      == Page("/d")
PageE      == Page("/e")
FilePdf    == [Page("/manual") EXCEPT !.ext = "PDF"]     \* /manual.PDF
FileJs     == [Page("/app") EXCEPT !.ext = "js"]         \* /app.js
PageHtml   == [Page("/guide") EXCEPT !.ext = "html"]     \* /guide.html
SubDomain  == MkUrl("https", <<"docs", "example", "com">>, "", "/")
OtherSite  == MkUrl("https", <<"other", "org">>, "", "/")
AltPort    == MkUrl("http", ExampleCom, "8080", "/admin")
Localhost  == MkUrl("http", <<"localhost">>, "", "/")
Metadata   == MkUrl("http", <<"169", "254", "169", "254">>, "", "/latest")
Mailto     == MkUrl("mailto", <<>>, "", "admin")
FtpUrl     == MkUrl("ftp", ExampleCom, "21", "/pub")

Sites == {"abc", "diamond", "chain", "mixed"}

SiteHtml(s, u) ==
    CASE s = "abc" /\ u = UrlA -> <<UrlB, UrlC>>
      [] s = "diamond" /\ u = UrlS -> <<UrlX, UrlY>>
      [] s = "diamond" /\ u = UrlX -> <<UrlZ, UrlS>>
      [] s = "diamond" /\ u = UrlY -> <<UrlZ>>
      [] s = "diamond" /\ u = UrlZ -> <<UrlW>>
      [] s = "chain" /\ (\E i \in 0..(ChainLen - 1) : u = P(i)) ->
             <<P((CHOOSE i \in 0..(ChainLen - 1) : u = P(i)) + 1), P(0)>>
      [] s = "chain" /\ u = P(ChainLen) -> <<P(0)>>
      [] s = "mixed" /\ u = Home ->
             <<PageB, PageBFrag, PageB, FilePdf, Mailto, InvalidUrl, OtherSite,
               SubDomain, AltPort, HomeUpper, FileJs>>
      [] s = "mixed" /\ u = PageB -> <<Home, PageD, SubDomain, Localhost>>
      [] s = "mixed" /\ u = PageD -> <<PageB, PageE, PageHtml>>
      [] s = "mixed" /\ u = SubDomain -> <<PageB, Metadata>>
      [] OTHER -> <<>>

SiteLocations(s, u) ==
    CASE s = "mixed" /\ u = PageB -> {PageD, Metadata, InvalidUrl, FtpUrl, OtherSite}
      [] s = "mixed" /\ u = PageD -> {PageE}
      [] s = "chain" /\ u = P(1) -> {P(0)}
      [] OTHER -> {}

SiteStarts(s) ==
    CASE s = "abc"   -> {UrlA}
      [] s = "diamond" -> {UrlS}
      [] s = "chain" -> {P(0)}
      [] s = "mixed" -> {HomeRaw, Localhost, AltPort, InvalidUrl, FtpUrl}

(***************************************************************************)
(* HTTP responses                                                          *)
(***************************************************************************)
MAX_DEPTH_LIMIT == 5
DEFAULT_MAX_PAGES == 100
MAX_RESPONSE_SIZE_BYTES == 10 * 1024 * 1024
DefaultToolMaxDepth == 2

SmallChunk == 4 * 1024
BigChunk == 6 * 1024 * 1024

\* clen = -1: no Content-Length header.  failAt = i: the i-th reader.read()
\* rejects (0: none does).  hasBody = FALSE: response.body is null.
Resp(status, html, clen, hasBody, chunks, failAt) ==
    [status |-> status, html |-> html, clen |-> clen, hasBody |-> hasBody,
     chunks |-> chunks, failAt |-> failAt,
     hasLocation |-> FALSE, location |-> InvalidUrl]

Redirect(status, loc) ==
    [Resp(status, TRUE, -1, FALSE, <<>>, 0) EXCEPT
        !.hasLocation = TRUE, !.location = loc]

NoResp == Resp(0, FALSE, -1, FALSE, <<>>, 0)

PlainPages ==
    { Resp(200, TRUE, -1, TRUE, <<SmallChunk>>, 0),
      Resp(200, TRUE, SmallChunk + SmallChunk, TRUE, <<SmallChunk, SmallChunk>>, 0),
      Resp(200, TRUE, -1, TRUE, <<BigChunk, SmallChunk>>, 0) }

\* What the server of site s may answer to a request for u.
Responses(s, u) ==
    PlainPages
    \cup { Resp(200, TRUE, -1, TRUE, <<>>, 0),                     \* empty body
           Resp(200, TRUE, -1, FALSE, <<>>, 0),                    \* no body
           Resp(200, TRUE, -1, TRUE, <<BigChunk, BigChunk>>, 0),   \* over the cap
           Resp(200, TRUE, SmallChunk, TRUE, <<BigChunk, BigChunk>>, 0),
           Resp(200, TRUE, BigChunk + BigChunk, TRUE, <<SmallChunk>>, 0),
           Resp(200, TRUE, -1, TRUE, <<SmallChunk, SmallChunk>>, 2), \* read fails
           Resp(200, FALSE, -1, TRUE, <<SmallChunk>>, 0),          \* not HTML
           Resp(404, TRUE, -1, TRUE, <<SmallChunk>>, 0),
           Resp(304, TRUE, -1, FALSE, <<>>, 0) }                   \* 3xx, no Location
    \cup { Redirect(301, l) : l \in SiteLocations(s, u) }

ResponseOk(r) == r.status >= 200 /\ r.status <= 299

(***************************************************************************)
(* Pure helpers of the crawler                                             *)
(***************************************************************************)
Min(a, b) == IF a < b THEN a ELSE b

\* new URL(href, base).href for an href that is already absolute.
Href(u) ==
    IF ~u.valid THEN u
    ELSE [u EXCEPT !.host = LowerHost(u.host),
                   !.port = ParseUrl(u).port,
                   !.path = ParseUrl(u).pathname]

\* fetch() only speaks http and https; any other scheme rejects at once.
Fetchable(u) == u.valid /\ u.scheme \in {"http", "https"}

\* The recursions below bind each new accumulator with \E-style set
\* comprehension ({... : a \in {value}}), so that it is passed on as a value.

\* [...new Set(links)]: the first occurrence of each link, in order.
RECURSIVE DedupFrom(_, _, _)
DedupFrom(s, i, acc) ==
    IF i > Len(s) THEN acc
    ELSE CHOOSE r \in
            { DedupFrom(s, i + 1, a) :
                a \in { IF \E j \in 1..Len(acc) : acc[j] = s[i] THEN acc
                        ELSE Append(acc, s[i]) } } : TRUE

Dedup(s) == DedupFrom(s, 1, <<>>)

\* vectorstore.ts 664-677: each href is resolved; the ones that do not parse
\* or do not start with "http" are left out.
RECURSIVE CollectLinks(_, _, _)
CollectLinks(html, i, links) ==
    IF i > Len(html) THEN links
    ELSE CHOOSE r \in
            { CollectLinks(html, i + 1, a) :
                a \in { LET absoluteUrl == Href(html[i]) IN
                        IF absoluteUrl.valid /\ absoluteUrl.scheme \in {"http", "https"}
                        THEN Append(links, absoluteUrl)
                        ELSE links } } : TRUE

\* parsePage, as far as the crawl uses it: html is the sequence of href values.
parsePage(url, html) ==
    CHOOSE page \in
        { [url |-> url, links |-> Dedup(collected)] :
            collected \in {CollectLinks(hrefs, 1, <<>>) : hrefs \in {html}} } : TRUE

BinaryExts == {"pdf", "zip", "png", "jpg", "gif", "svg", "css", "js"}

IsSuffixHost(h, d) ==
    Len(h) > Len(d) /\ SubSeq(h, Len(h) - Len(d) + 1, Len(h)) = d

\* Mutant: visited links are not filtered out.
filterValidLinks_KeepVisited(links, allowedDomains, visitedSet) ==
    LET Valid(link) ==
            LET url == ParseUrl(link) IN
            IF ~url.ok THEN FALSE
            ELSE IF url.hash \/ ToLowerCase(link.ext) \in BinaryExts THEN FALSE
            ELSE \E domain \in allowedDomains :
                     url.hostname = domain \/ IsSuffixHost(url.hostname, domain)
    IN SelectSeq(links, Valid)

filterValidLinks(links, allowedDomains, visitedSet) ==
    LET Valid(link) ==
            IF link \in visitedSet THEN FALSE
            ELSE LET url == ParseUrl(link) IN
                 IF ~url.ok THEN FALSE
                 ELSE IF url.hash \/ ToLowerCase(link.ext) \in BinaryExts THEN FALSE
                 ELSE \E domain \in allowedDomains :
                          url.hostname = domain \/ IsSuffixHost(url.hostname, domain)
    IN SelectSeq(links, Valid)

\* readResponseWithLimit: "null", "throw" (reader.read() rejected), "empty"
\* (the decoded text is the empty string) or "html".
RECURSIVE ReadLoop(_, _, _)
ReadLoop(response, i, totalSize) ==
    IF response.failAt = i THEN "throw"
    ELSE IF i > Len(response.chunks)
         THEN IF totalSize = 0 THEN "empty" ELSE "html"
    ELSE LET total == totalSize + response.chunks[i] IN
         IF total > MAX_RESPONSE_SIZE_BYTES THEN "null"
         ELSE ReadLoop(response, i + 1, total)

readResponseWithLimit(response) ==
    IF ~response.hasBody THEN "null" ELSE ReadLoop(response, 1, 0)

\* fetchAndParsePage between the response and the body read:
\* "redirect", "null" or "read".
HeadOfFetchAndParsePage(response) ==
    IF response.status >= 300 /\ response.status < 400 THEN "redirect"
    ELSE IF ~ResponseOk(response) THEN "null"
    ELSE IF ~response.html THEN "null"
    ELSE IF response.clen # -1 /\ response.clen > MAX_RESPONSE_SIZE_BYTES THEN "null"
    ELSE "read"

\* fetchWithoutRedirect between the response and the body read: "null" or "read".
HeadOfFetchWithoutRedirect(response) ==
    IF ~ResponseOk(response) \/ (response.status >= 300 /\ response.status < 400)
    THEN "null"
    ELSE IF ~response.html THEN "null"
    ELSE IF response.clen # -1 /\ response.clen > MAX_RESPONSE_SIZE_BYTES THEN "null"
    ELSE "read"

(***************************************************************************)
(* The crawl: crawlAndIndex (mode "tool") or crawlWebsite called with its  *)
(* own options (mode "direct").  pc is one of                              *)
(*   "init"      nothing has run yet                                       *)
(*   "avail"     crawlAndIndex awaits ensureModelAvailable()               *)
(*   "enter"     crawlWebsite is being entered                             *)
(*   "loop"      crawlWebsite is at its while test                         *)
(*   "req1"      fetchAndParsePage awaits fetch(url)                       *)
(*   "body1"     fetchAndParsePage awaits readResponseWithLimit            *)
(*   "req2"      fetchWithoutRedirect awaits fetch(redirectUrl)            *)
(*   "body2"     fetchWithoutRedirect awaits readResponseWithLimit         *)
(*   "sleep"     crawlWebsite awaits sleep(REQUEST_DELAY_MS)               *)
(*   "index"     crawlAndIndex awaits addChunks(chunkPages(pages))         *)
(*   "threw"     crawlWebsite rejected (mode "direct")                     *)
(*   "returned"  crawlWebsite returned pages (mode "direct")               *)
(*   "result"    crawlAndIndex returned its result object                  *)
(***************************************************************************)
MaxDepthInput == 6
MaxPagesInput == 2
MaxChunksPerPage == 1

Undefined == [kind |-> "undefined", val |-> 0]
IntArg(n) == [kind |-> "int", val |-> n]
FracArg   == [kind |-> "frac", val |-> 1]          \* 1.5

NotGiven    == [given |-> FALSE, val |-> 0]
NoDomains   == [given |-> FALSE, val |-> {}]
NoItem      == [url |-> InvalidUrl, depth |-> 0]
NoResult    == [success |-> FALSE, pagesIndexed |-> 0, chunksCreated |-> 0,
                error |-> "(pending)"]

Failure(message) ==
    [success |-> FALSE, pagesIndexed |-> 0, chunksCreated |-> 0, error |-> message]

InFlightPcs == {"req1", "body1", "req2", "body2"}
FinalPcs == {"threw", "returned", "result"}

GuardIdle ==
    /\ gUrl = InvalidUrl
    /\ gDone = FALSE
    /\ gBlocked = FALSE

NoDeleteResult == [success |-> FALSE, deletedChunks |-> 0, error |-> "(pending)"]

DeleteIdle ==
    /\ dPc = "idle"
    /\ dUrl = InvalidUrl
    /\ collection = <<>>
    /\ collection0 = <<>>
    /\ dOffset = 0
    /\ totalDeleted = 0
    /\ dResult = NoDeleteResult

\* A JavaScript number: NaN, or the value twice / 2.
Num(n) == [nan |-> FALSE, twice |-> 2 * n]
Half(n) == [nan |-> FALSE, twice |-> 2 * n + 1]                \* n + 0.5
NaN == [nan |-> TRUE, twice |-> 0]

NoQuery == [kind |-> "missing", words |-> <<>>]
NoSearchInput ==
    [query |-> NoQuery, top_k |-> [given |-> "undefined", num |-> NaN],
     hybrid |-> "undefined", expand_query |-> "undefined"]
NoSearchResult ==
    [results |-> <<>>, query |-> "(pending)", totalResults |-> 0,
     hasError |-> FALSE, error |-> ""]

SearchIdle ==
    /\ sPc = "idle"
    /\ sInput = NoSearchInput
    /\ sCollection = <<>>
    /\ topK = NaN
    /\ variants = 0
    /\ allResults = <<>>
    /\ semanticResults = <<>>
    /\ kOffset = 0
    /\ allScored = <<>>
    /\ keywordResults = <<>>
    /\ scans = 0
    /\ fused = FALSE
    /\ sResult = NoSearchResult

NoIngestOptions ==
    [chunkSize |-> "undefined", chunkOverlap |-> "undefined", semantic |-> "undefined"]
NoIngestResult == [threw |-> FALSE, count |-> 0]

IngestIdle ==
    /\ iPc = "idle"
    /\ iPages = <<>>
    /\ iOptions = NoIngestOptions
    /\ addPolicy = "ignore"
    /\ round = 0
    /\ allChunks = <<>>
    /\ allChunks1 = <<>>
    /\ carried = <<>>
    /\ documents = <<>>
    /\ embeddings = <<>>
    /\ embedded = <<>>
    /\ store = <<>>
    /\ store1 = <<>>
    /\ iResult = NoIngestResult

NoListResult == [sources |-> <<>>, totalSources |-> 0]

ListIdle ==
    /\ lPc = "idle"
    /\ lCollection = <<>>
    /\ lOffset = 0
    /\ sourceMap = <<>>
    /\ lResult = NoListResult

HandleIdle ==
    /\ hPc = <<>>
    /\ colHandle = 0
    /\ hClient = 0
    /\ setups = 0
    /\ hGot = <<>>

SlideIdle ==
    /\ wPc = "idle"
    /\ wWords = 0
    /\ wSize = 0
    /\ wOverlap = 0
    /\ wStart = 0
    /\ wChunks = <<>>

EmbedIdle ==
    /\ ePc = "idle"
    /\ eTexts = <<>>
    /\ eI = 0
    /\ eCalls = <<>>
    /\ eEmbeddings = <<>>
    /\ eSlept = FALSE

StepIdle == SlideIdle /\ EmbedIdle

AuxIdle == IngestIdle /\ ListIdle /\ HandleIdle /\ StepIdle

CrawlLocalsInit ==
    /\ pc = "init"
    /\ maxDepth = 0
    /\ maxPages = 0
    /\ domains = {}
    /\ visited = {}
    /\ pages = <<>>
    /\ queue = <<>>
    /\ item = NoItem
    /\ reqUrl = InvalidUrl
    /\ resp1 = NoResp
    /\ resp2 = NoResp
    /\ timerArmed = FALSE
    /\ result = NoResult
    /\ storeCount = 0
    /\ reqCount = 0
    /\ requests = 0
    /\ sinceDelay = 0
    /\ outcome = "none"
    /\ allOk = TRUE

Init ==
    /\ mode \in {"tool", "direct"}
    /\ site \in Sites
    /\ startUrl \in SiteStarts(site)
    /\ optMaxDepth \in
         IF mode = "tool"
         THEN {Undefined, FracArg} \cup {IntArg(n) : n \in (-1)..MaxDepthInput}
         ELSE {IntArg(n) : n \in 0..MaxDepthInput}
    /\ optMaxPages \in
         IF mode = "tool" THEN {NotGiven}
         ELSE {NotGiven} \cup {[given |-> TRUE, val |-> n] : n \in 1..MaxPagesInput}
    /\ optDomains \in
         IF mode = "tool" \/ site # "mixed" THEN {NoDomains}
         ELSE {NoDomains, [given |-> TRUE, val |-> {ExampleCom, <<"localhost">>}]}
    /\ CrawlLocalsInit
    /\ GuardIdle
    /\ DeleteIdle
    /\ SearchIdle
    /\ AuxIdle

UNCHANGED_INPUT == UNCHANGED <<inputVars, guardVars, deleteVars, searchVars, auxVars>>

(* ---------------- crawlAndIndex, before the crawl ---------------------- *)

\* crawl.ts 17-40: the input is rejected before anything is awaited.
crawlAndIndex_Reject ==
    /\ mode = "tool" /\ pc = "init"
    /\ \/ /\ optMaxDepth.kind = "frac" \/ (optMaxDepth.kind = "int" /\ optMaxDepth.val < 0)
          /\ result' = Failure("max_depth must be a non-negative integer")
       \/ /\ ~(optMaxDepth.kind = "frac" \/ (optMaxDepth.kind = "int" /\ optMaxDepth.val < 0))
          /\ ~ParseUrl(startUrl).ok
          /\ result' = Failure("Invalid URL")              \* the TypeError's message
       \/ /\ ~(optMaxDepth.kind = "frac" \/ (optMaxDepth.kind = "int" /\ optMaxDepth.val < 0))
          /\ ParseUrl(startUrl).ok
          /\ ParseUrl(startUrl).protocol \notin {"http", "https"}
          /\ result' = Failure("Invalid URL: must use http or https protocol")
    /\ pc' = "result"
    /\ UNCHANGED <<maxDepth, maxPages, domains, visited, pages, queue, item,
                   fetchVars, storeCount, histVars>>
    /\ UNCHANGED timerArmed
    /\ UNCHANGED_INPUT

\* Mutant: the crawl is started without asking ensureModelAvailable().
crawlAndIndex_CheckModel_Skipped ==
    /\ mode = "tool" /\ pc = "init"
    /\ ~(optMaxDepth.kind = "frac" \/ (optMaxDepth.kind = "int" /\ optMaxDepth.val < 0))
    /\ ParseUrl(startUrl).ok
    /\ ParseUrl(startUrl).protocol \in {"http", "https"}
    /\ pc' = "enter"
    /\ UNCHANGED <<maxDepth, maxPages, domains, visited, pages, queue, item,
                   fetchVars, toolVars, histVars>>
    /\ UNCHANGED timerArmed
    /\ UNCHANGED_INPUT

\* crawl.ts 27-43: the input is valid; ensureModelAvailable() is awaited.
crawlAndIndex_CheckModel ==
    /\ mode = "tool" /\ pc = "init"
    /\ ~(optMaxDepth.kind = "frac" \/ (optMaxDepth.kind = "int" /\ optMaxDepth.val < 0))
    /\ ParseUrl(startUrl).ok
    /\ ParseUrl(startUrl).protocol \in {"http", "https"}
    /\ pc' = "avail"
    /\ UNCHANGED <<maxDepth, maxPages, domains, visited, pages, queue, item,
                   fetchVars, toolVars, histVars>>
    /\ UNCHANGED timerArmed
    /\ UNCHANGED_INPUT

\* crawl.ts 44-52: ensureModelAvailable() resolved to false.
crawlAndIndex_ModelUnavailable ==
    /\ pc = "avail"
    /\ result' = Failure("Embedding model not available. Is Ollama running?")
    /\ pc' = "result"
    /\ UNCHANGED <<maxDepth, maxPages, domains, visited, pages, queue, item,
                   fetchVars, storeCount, histVars>>
    /\ UNCHANGED timerArmed
    /\ UNCHANGED_INPUT

\* crawl.ts 56: ensureModelAvailable() resolved to true; crawlWebsite is called.
crawlAndIndex_ModelReady ==
    /\ pc = "avail"
    /\ pc' = "enter"
    /\ UNCHANGED <<maxDepth, maxPages, domains, visited, pages, queue, item,
                   fetchVars, toolVars, histVars>>
    /\ UNCHANGED timerArmed
    /\ UNCHANGED_INPUT

\* mode "direct": the caller calls crawlWebsite(startUrl, options).
crawlWebsite_Call ==
    /\ mode = "direct" /\ pc = "init"
    /\ pc' = "enter"
    /\ UNCHANGED <<maxDepth, maxPages, domains, visited, pages, queue, item,
                   fetchVars, toolVars, histVars>>
    /\ UNCHANGED timerArmed
    /\ UNCHANGED_INPUT

(* ---------------- crawlWebsite ----------------------------------------- *)

\* options.maxDepth as crawlWebsite receives it.
GivenMaxDepth ==
    IF mode = "tool" /\ optMaxDepth.kind = "undefined" THEN DefaultToolMaxDepth
    ELSE optMaxDepth.val

\* Mutant: the caller's maxDepth is used unclamped.
ClampedMaxDepth_Unclamped == GivenMaxDepth

ClampedMaxDepth == Min(GivenMaxDepth, MAX_DEPTH_LIMIT)

EffectiveMaxPages == IF optMaxPages.given THEN optMaxPages.val ELSE DEFAULT_MAX_PAGES

\* Mutant: the check of the start URL is missing; the crawl begins.
crawlWebsite_StartBlocked_Unchecked ==
    /\ pc = "enter"
    /\ isBlockedUrl(startUrl)
    /\ maxDepth' = ClampedMaxDepth
    /\ maxPages' = EffectiveMaxPages
    /\ visited' = {}
    /\ pages' = <<>>
    /\ queue' = <<[url |-> startUrl, depth |-> 0]>>
    /\ domains' = IF optDomains.given THEN optDomains.val
                  ELSE {ParseUrl(startUrl).hostname}
    /\ pc' = "loop"
    /\ UNCHANGED <<item, fetchVars, toolVars, histVars>>
    /\ UNCHANGED timerArmed
    /\ UNCHANGED_INPUT

\* vectorstore.ts 455-458: the start URL is blocked; crawlWebsite throws, and
\* crawlAndIndex's catch (crawl.ts 84-93) turns that into a result object.
crawlWebsite_StartBlocked ==
    /\ pc = "enter"
    /\ isBlockedUrl(startUrl)
    /\ maxDepth' = ClampedMaxDepth
    /\ maxPages' = EffectiveMaxPages
    /\ IF mode = "tool"
       THEN /\ pc' = "result"
            /\ result' = Failure("URL is not allowed: internal or private network detected")
       ELSE /\ pc' = "threw"
            /\ UNCHANGED result
    /\ UNCHANGED <<domains, visited, pages, queue, item, fetchVars, storeCount, histVars>>
    /\ UNCHANGED timerArmed
    /\ UNCHANGED_INPUT

\* vectorstore.ts 451-465
crawlWebsite_Begin ==
    /\ pc = "enter"
    /\ ~isBlockedUrl(startUrl)
    /\ maxDepth' = ClampedMaxDepth
    /\ maxPages' = EffectiveMaxPages
    /\ visited' = {}
    /\ pages' = <<>>
    /\ queue' = <<[url |-> startUrl, depth |-> 0]>>
    /\ domains' = IF optDomains.given THEN optDomains.val
                  ELSE {ParseUrl(startUrl).hostname}
    /\ pc' = "loop"
    /\ UNCHANGED <<item, fetchVars, toolVars, histVars>>
    /\ UNCHANGED timerArmed
    /\ UNCHANGED_INPUT

\* Mutant: the loop test forgets the page cap.
LoopContinues_NoCap == Len(queue) > 0

LoopContinues == Len(queue) > 0 /\ Len(pages) < maxPages

\* vectorstore.ts 467, 506 and crawl.ts 58-70: the loop ends and crawlWebsite
\* returns pages; crawlAndIndex goes on with them.
crawlWebsite_Return ==
    /\ pc = "loop"
    /\ ~LoopContinues
    /\ IF mode = "direct"
       THEN pc' = "returned" /\ UNCHANGED result
       ELSE IF Len(pages) = 0
            THEN pc' = "result" /\ result' = Failure("No pages found to index")
            ELSE pc' = "index" /\ UNCHANGED result
    /\ UNCHANGED <<maxDepth, maxPages, domains, visited, pages, queue, item,
                   fetchVars, storeCount, histVars>>
    /\ UNCHANGED timerArmed
    /\ UNCHANGED_INPUT

\* vectorstore.ts 468-475
Loop_SkipVisitedOrDeep ==
    /\ pc = "loop"
    /\ LoopContinues
    /\ LET it == Head(queue) IN
       /\ it.url \in visited \/ it.depth > maxDepth
       /\ item' = it
    /\ queue' = Tail(queue)
    /\ UNCHANGED <<pc, maxDepth, maxPages, domains, visited, pages,
                   fetchVars, toolVars, histVars>>
    /\ UNCHANGED timerArmed
    /\ UNCHANGED_INPUT

\* vectorstore.ts 477-480
Loop_SkipBlocked ==
    /\ pc = "loop"
    /\ LoopContinues
    /\ LET it == Head(queue) IN
       /\ ~(it.url \in visited \/ it.depth > maxDepth)
       /\ isBlockedUrl(it.url)
       /\ item' = it
    /\ queue' = Tail(queue)
    /\ UNCHANGED <<pc, maxDepth, maxPages, domains, visited, pages,
                   fetchVars, toolVars, histVars>>
    /\ UNCHANGED timerArmed
    /\ UNCHANGED_INPUT

\* Mutant: no catch around the fetch; the error rejects crawlWebsite.
CatchFetchError_Rethrown ==
    /\ pc' = "threw"
    /\ outcome' = "error"
    /\ allOk' = FALSE
    /\ timerArmed' = FALSE                       \* finally: clearTimeout
    /\ UNCHANGED <<pages, queue, result>>

\* vectorstore.ts 501-503: the catch around one page's fetch.
CatchFetchError ==
    /\ pc' = "loop"
    /\ outcome' = "error"
    /\ allOk' = FALSE
    /\ timerArmed' = FALSE                       \* finally: clearTimeout
    /\ UNCHANGED <<pages, queue, result>>

\* Mutant: links are pushed at the page's own depth (depth, not depth + 1).
AfterFetch_SameDepth(isPage, page) ==
    \E validLinks \in { IF isPage /\ item.depth < maxDepth
                         THEN filterValidLinks(page.links, domains, visited)
                         ELSE <<>> } :
       /\ pages' = IF isPage
                   THEN Append(pages, [url |-> page.url, links |-> page.links,
                                       depth |-> item.depth])
                   ELSE pages
       /\ queue' = queue \o [i \in 1..Len(validLinks) |->
                                [url |-> validLinks[i], depth |-> item.depth]]
       /\ pc' = IF Len(queue) + Len(validLinks) > 0 THEN "sleep" ELSE "loop"
       /\ outcome' = IF isPage THEN "page" ELSE "null"
       /\ timerArmed' = FALSE                    \* finally: clearTimeout
       /\ UNCHANGED result

\* vectorstore.ts 486-500: fetchAndParsePage resolved, to a page (isPage) or null.
AfterFetch(isPage, page) ==
    \E validLinks \in { IF isPage /\ item.depth < maxDepth
                         THEN filterValidLinks(page.links, domains, visited)
                         ELSE <<>> } :
       /\ pages' = IF isPage
                   THEN Append(pages, [url |-> page.url, links |-> page.links,
                                       depth |-> item.depth])
                   ELSE pages
       /\ queue' = queue \o [i \in 1..Len(validLinks) |->
                                [url |-> validLinks[i], depth |-> item.depth + 1]]
       /\ pc' = IF Len(queue) + Len(validLinks) > 0 THEN "sleep" ELSE "loop"
       /\ outcome' = IF isPage THEN "page" ELSE "null"
       /\ timerArmed' = FALSE                    \* finally: clearTimeout
       /\ UNCHANGED result

NoPage == [url |-> InvalidUrl, links |-> <<>>]

\* vectorstore.ts 482-485, 510-522: the item is fetched.
Loop_Fetch ==
    /\ pc = "loop"
    /\ LoopContinues
    /\ LET it == Head(queue) IN
       /\ ~(it.url \in visited \/ it.depth > maxDepth)
       /\ ~isBlockedUrl(it.url)
       /\ item' = it
       /\ visited' = visited \cup {it.url}
       /\ queue' = Tail(queue)
       /\ IF Fetchable(it.url)
          THEN /\ pc' = "req1"
               /\ reqUrl' = it.url
               /\ reqCount' = 1
               /\ requests' = requests + 1
               /\ sinceDelay' = sinceDelay + 1
               /\ outcome' = "pending"
               /\ timerArmed' = TRUE               \* 510-511: setTimeout
               /\ UNCHANGED allOk
          ELSE /\ pc' = "loop"                     \* fetch rejects: caught
               /\ outcome' = "error"
               /\ allOk' = FALSE
               /\ reqCount' = 0
               /\ timerArmed' = FALSE
               /\ UNCHANGED <<reqUrl, requests, sinceDelay>>
    /\ resp1' = NoResp
    /\ resp2' = NoResp
    /\ UNCHANGED <<maxDepth, maxPages, domains, pages, toolVars>>
    /\ UNCHANGED_INPUT

(* ---------------- fetchAndParsePage ------------------------------------ *)

FetchFrame == UNCHANGED <<maxDepth, maxPages, domains, visited, item, storeCount>>

\* vectorstore.ts 515-522: fetch(url) rejects (network error, or the timeout
\* aborted it); the rejection reaches crawlWebsite's catch.
fetchAndParsePage_NetworkError ==
    /\ pc = "req1"
    /\ CatchFetchError
    /\ FetchFrame
    /\ UNCHANGED <<fetchVars, reqCount, requests, sinceDelay>>
    /\ UNCHANGED_INPUT

\* vectorstore.ts 543-557: the response is refused; null is returned.
fetchAndParsePage_Refused ==
    /\ pc = "req1"
    /\ \E r \in Responses(site, Href(reqUrl)) :
          /\ HeadOfFetchAndParsePage(r) = "null"
          /\ resp1' = r
    /\ AfterFetch(FALSE, NoPage)
    /\ allOk' = FALSE
    /\ FetchFrame
    /\ UNCHANGED <<reqUrl, resp2, reqCount, requests, sinceDelay>>
    /\ UNCHANGED_INPUT

\* Mutant: the body read is started but not awaited; the loop goes on while
\* it is in flight.
fetchAndParsePage_Accepted_NotAwaited ==
    /\ pc = "req1"
    /\ \E r \in Responses(site, Href(reqUrl)) :
          /\ HeadOfFetchAndParsePage(r) = "read"
          /\ resp1' = r
    /\ pc' = "loop"
    /\ FetchFrame
    /\ UNCHANGED <<pages, queue, result, reqUrl, resp2, histVars>>
    /\ UNCHANGED timerArmed
    /\ UNCHANGED_INPUT

\* vectorstore.ts 543-560: the response is accepted; its body is read.
fetchAndParsePage_Accepted ==
    /\ pc = "req1"
    /\ \E r \in Responses(site, Href(reqUrl)) :
          /\ HeadOfFetchAndParsePage(r) = "read"
          /\ resp1' = r
    /\ pc' = "body1"
    /\ FetchFrame
    /\ UNCHANGED <<pages, queue, result, reqUrl, resp2, histVars>>
    /\ UNCHANGED timerArmed
    /\ UNCHANGED_INPUT

\* vectorstore.ts 560-565: readResponseWithLimit has settled.
fetchAndParsePage_Body ==
    /\ pc = "body1"
    /\ LET html == readResponseWithLimit(resp1) IN
       CASE html = "throw" -> CatchFetchError
         [] html = "html"  ->
               /\ \E page \in {parsePage(reqUrl, SiteHtml(site, Href(reqUrl)))} :
                     AfterFetch(TRUE, page)
               /\ UNCHANGED allOk
         [] OTHER ->
               /\ AfterFetch(FALSE, NoPage)
               /\ allOk' = FALSE
    /\ FetchFrame
    /\ UNCHANGED <<fetchVars, reqCount, requests, sinceDelay>>
    /\ UNCHANGED_INPUT

\* vectorstore.ts 525-537: a 3xx that is not followed: no Location header, or
\* a Location that URL Guard blocks.  null is returned.
fetchAndParsePage_RedirectDropped ==
    /\ pc = "req1"
    /\ \E r \in Responses(site, Href(reqUrl)) :
          /\ HeadOfFetchAndParsePage(r) = "redirect"
          /\ \/ ~r.hasLocation
             \/ r.hasLocation /\ r.location.valid /\ isBlockedUrl(Href(r.location))
          /\ resp1' = r
    /\ AfterFetch(FALSE, NoPage)
    /\ allOk' = FALSE
    /\ FetchFrame
    /\ UNCHANGED <<reqUrl, resp2, reqCount, requests, sinceDelay>>
    /\ UNCHANGED_INPUT

\* vectorstore.ts 531, 616: new URL(location, url) throws, or fetch(redirectUrl)
\* rejects at once because the scheme is not http(s).
fetchAndParsePage_RedirectThrows ==
    /\ pc = "req1"
    /\ \E r \in Responses(site, Href(reqUrl)) :
          /\ HeadOfFetchAndParsePage(r) = "redirect"
          /\ r.hasLocation
          /\ \/ ~r.location.valid
             \/ /\ r.location.valid
                /\ ~isBlockedUrl(Href(r.location))
                /\ ~Fetchable(Href(r.location))
          /\ resp1' = r
    /\ CatchFetchError
    /\ FetchFrame
    /\ UNCHANGED <<reqUrl, resp2, reqCount, requests, sinceDelay>>
    /\ UNCHANGED_INPUT

\* The redirect hop: vectorstore.ts 531-540 and 616-623.
FollowRedirect(redirectUrl) ==
    /\ pc' = "req2"
    /\ reqUrl' = redirectUrl
    /\ reqCount' = reqCount + 1
    /\ requests' = requests + 1
    /\ sinceDelay' = sinceDelay + 1
    /\ timerArmed' = FALSE       \* 540, 566-568: the promise is returned, not
                                 \* awaited, and the finally block runs

\* Mutant: the redirect target is followed without the SSRF check.
fetchAndParsePage_RedirectFollowed_Unchecked ==
    /\ pc = "req1"
    /\ \E r \in Responses(site, Href(reqUrl)) :
          /\ HeadOfFetchAndParsePage(r) = "redirect"
          /\ r.hasLocation
          /\ r.location.valid
          /\ Fetchable(Href(r.location))
          /\ resp1' = r
          /\ FollowRedirect(Href(r.location))
    /\ allOk' = FALSE
    /\ FetchFrame
    /\ UNCHANGED <<pages, queue, result, resp2, outcome>>
    /\ UNCHANGED_INPUT

fetchAndParsePage_RedirectFollowed ==
    /\ pc = "req1"
    /\ \E r \in Responses(site, Href(reqUrl)) :
          /\ HeadOfFetchAndParsePage(r) = "redirect"
          /\ r.hasLocation
          /\ r.location.valid
          /\ ~isBlockedUrl(Href(r.location))
          /\ Fetchable(Href(r.location))
          /\ resp1' = r
          /\ FollowRedirect(Href(r.location))
    /\ allOk' = FALSE
    /\ FetchFrame
    /\ UNCHANGED <<pages, queue, result, resp2, outcome>>
    /\ UNCHANGED_INPUT

(* ---------------- fetchWithoutRedirect --------------------------------- *)

\* vectorstore.ts 616-623: fetch(redirectUrl) rejects.
fetchWithoutRedirect_NetworkError ==
    /\ pc = "req2"
    /\ CatchFetchError
    /\ FetchFrame
    /\ UNCHANGED <<fetchVars, reqCount, requests, sinceDelay>>
    /\ UNCHANGED_INPUT

\* Mutant: a 3xx answer to the redirect hop is followed again.
fetchWithoutRedirect_Refused_Chained ==
    /\ pc = "req2"
    /\ \E r \in Responses(site, Href(reqUrl)) :
          /\ HeadOfFetchWithoutRedirect(r) = "null"
          /\ resp2' = r
          /\ IF r.hasLocation /\ Fetchable(Href(r.location))
             THEN /\ FollowRedirect(Href(r.location))
                  /\ UNCHANGED <<pages, queue, result, outcome>>
             ELSE /\ AfterFetch(FALSE, NoPage)
                  /\ UNCHANGED <<reqUrl, reqCount, requests, sinceDelay>>
    /\ UNCHANGED allOk
    /\ FetchFrame
    /\ UNCHANGED resp1
    /\ UNCHANGED_INPUT

\* vectorstore.ts 625-639: the response is refused; null is returned.
fetchWithoutRedirect_Refused ==
    /\ pc = "req2"
    /\ \E r \in Responses(site, Href(reqUrl)) :
          /\ HeadOfFetchWithoutRedirect(r) = "null"
          /\ resp2' = r
    /\ AfterFetch(FALSE, NoPage)
    /\ UNCHANGED allOk
    /\ FetchFrame
    /\ UNCHANGED <<reqUrl, resp1, reqCount, requests, sinceDelay>>
    /\ UNCHANGED_INPUT

\* vectorstore.ts 625-641: the response is accepted; its body is read.
fetchWithoutRedirect_Accepted ==
    /\ pc = "req2"
    /\ \E r \in Responses(site, Href(reqUrl)) :
          /\ HeadOfFetchWithoutRedirect(r) = "read"
          /\ resp2' = r
    /\ pc' = "body2"
    /\ FetchFrame
    /\ UNCHANGED <<pages, queue, result, reqUrl, resp1, histVars>>
    /\ UNCHANGED timerArmed
    /\ UNCHANGED_INPUT

\* vectorstore.ts 641-646: readResponseWithLimit has settled.
fetchWithoutRedirect_Body ==
    /\ pc = "body2"
    /\ LET html == readResponseWithLimit(resp2) IN
       CASE html = "throw" -> CatchFetchError
         [] html = "html"  ->
               /\ \E page \in {parsePage(reqUrl, SiteHtml(site, Href(reqUrl)))} :
                     AfterFetch(TRUE, page)
               /\ UNCHANGED allOk
         [] OTHER ->
               /\ AfterFetch(FALSE, NoPage)
               /\ UNCHANGED allOk
    /\ FetchFrame
    /\ UNCHANGED <<fetchVars, reqCount, requests, sinceDelay>>
    /\ UNCHANGED_INPUT

(* ---------------- the delay, and what crawlAndIndex does with the pages  *)

\* vectorstore.ts 498-500: sleep(REQUEST_DELAY_MS) has elapsed.
crawlWebsite_Slept ==
    /\ pc = "sleep"
    /\ pc' = "loop"
    /\ sinceDelay' = 0
    /\ UNCHANGED <<maxDepth, maxPages, domains, visited, pages, queue, item,
                   fetchVars, toolVars, reqCount, requests, outcome, allOk>>
    /\ UNCHANGED timerArmed
    /\ UNCHANGED_INPUT

\* crawl.ts 68-83: chunkPages and addChunks succeeded; n chunks were stored.
crawlAndIndex_Indexed ==
    /\ pc = "index"
    /\ \E n \in 0..(Len(pages) * MaxChunksPerPage) :
          /\ storeCount' = storeCount + n
          /\ result' = [success |-> TRUE, pagesIndexed |-> Len(pages),
                        chunksCreated |-> n, error |-> ""]
    /\ pc' = "result"
    /\ UNCHANGED <<maxDepth, maxPages, domains, visited, pages, queue, item,
                   fetchVars, histVars>>
    /\ UNCHANGED timerArmed
    /\ UNCHANGED_INPUT

\* crawl.ts 84-93: addChunks threw (embedding backend or vector store).
crawlAndIndex_IndexFailed ==
    /\ pc = "index"
    /\ result' = Failure("(the message of the error addChunks threw)")
    /\ pc' = "result"
    /\ UNCHANGED <<maxDepth, maxPages, domains, visited, pages, queue, item,
                   fetchVars, storeCount, histVars>>
    /\ UNCHANGED timerArmed
    /\ UNCHANGED_INPUT

\* vectorstore.ts 511: the timeout fires while the request or the body read
\* it guards is in progress; controller.abort() makes the fetch or the read
\* reject, and the rejection reaches crawlWebsite's catch.
fetchAndParsePage_TimedOut ==
    /\ timerArmed
    /\ pc \in InFlightPcs
    /\ CatchFetchError
    /\ FetchFrame
    /\ UNCHANGED <<fetchVars, reqCount, requests, sinceDelay>>
    /\ UNCHANGED_INPUT

Next ==
    \/ crawlAndIndex_Reject
    \/ crawlAndIndex_CheckModel
    \/ crawlAndIndex_ModelUnavailable
    \/ crawlAndIndex_ModelReady
    \/ crawlWebsite_Call
    \/ crawlWebsite_StartBlocked
    \/ crawlWebsite_Begin
    \/ crawlWebsite_Return
    \/ Loop_SkipVisitedOrDeep
    \/ Loop_SkipBlocked
    \/ Loop_Fetch
    \/ fetchAndParsePage_NetworkError
    \/ fetchAndParsePage_Refused
    \/ fetchAndParsePage_Accepted
    \/ fetchAndParsePage_Body
    \/ fetchAndParsePage_RedirectDropped
    \/ fetchAndParsePage_RedirectThrows
    \/ fetchAndParsePage_RedirectFollowed
    \/ fetchWithoutRedirect_NetworkError
    \/ fetchWithoutRedirect_Refused
    \/ fetchWithoutRedirect_Accepted
    \/ fetchWithoutRedirect_Body
    \/ fetchAndParsePage_TimedOut
    \/ crawlWebsite_Slept
    \/ crawlAndIndex_Indexed
    \/ crawlAndIndex_IndexFailed

Spec == Init /\ [][Next]_vars

\* The event loop runs every continuation that is ready, each request is
\* answered or fails, and each timer fires.
FairSpec == Spec /\ WF_vars(Next)

(***************************************************************************)
(* URL Guard harness: isBlockedUrl applied to one URL string drawn from a  *)
(* bounded universe of hosts, schemes and ports.                           *)
(***************************************************************************)
FirstOctets  == {0, 10, 11, 127, 169, 172, 192, 193}
SecondOctets == {0, 1, 15, 16, 20, 31, 32, 168, 169, 254}
LastOctets   == {<<0, 1>>, <<0, 5>>, <<1, 1>>, <<2, 3>>, <<169, 254>>, <<255, 255>>}

Ipv4Hosts ==
    { <<ToString(a), ToString(b), ToString(cd[1]), ToString(cd[2])>> :
        a \in FirstOctets, b \in SecondOctets, cd \in LastOctets }

NamedHosts ==
    { <<"localhost">>, <<"LOCALHOST">>, <<"[::1]">>, <<"[::2]">>,
      <<"metadata", "google", "internal">>, <<"metadata", "google", "com">>,
      <<"example", "com">>, <<"Example", "com">>, <<"docs", "example", "com">>,
      <<"printer", "local">>, <<"printer", "LOCAL">>, <<"local">>,
      <<"svc", "internal">>, <<"internal">>, <<"internal", "example", "com">>,
      <<"localhost", "example", "com">>, <<"10", "example", "com">>,
      <<"notlocal">>, <<"local", "net">> }

GuardPorts == {"", "0", "21", "80", "443", "8080", "8443"}

GuardSchemes == {"http", "https", "ftp"}

GuardUrls ==
    { MkUrl(s, h, p, "/") :
        s \in GuardSchemes, h \in Ipv4Hosts \cup NamedHosts, p \in GuardPorts }
    \cup {InvalidUrl}

CrawlIdle ==
    /\ mode = "direct"
    /\ site = "abc"
    /\ startUrl = InvalidUrl
    /\ optMaxDepth = IntArg(0)
    /\ optMaxPages = NotGiven
    /\ optDomains = NoDomains
    /\ CrawlLocalsInit

GuardInit ==
    /\ gUrl \in GuardUrls
    /\ gDone = FALSE
    /\ gBlocked = FALSE
    /\ CrawlIdle
    /\ DeleteIdle
    /\ SearchIdle
    /\ AuxIdle

GuardCheck ==
    /\ ~gDone
    /\ gDone' = TRUE
    /\ gBlocked' = isBlockedUrl(gUrl)
    /\ UNCHANGED gUrl
    /\ UNCHANGED <<inputVars, crawlVars, fetchVars, timerVars, toolVars, histVars, deleteVars,
                   searchVars, auxVars>>

GuardNext == GuardCheck

GuardSpec == GuardInit /\ [][GuardNext]_vars

(***************************************************************************)
(* deleteSource and deleteByUrl, on a collection nobody else modifies.     *)
(* dPc is one of                                                           *)
(*   "idle"      no delete call is modelled                                *)
(*   "call"      deleteSource(input) has been called                       *)
(*   "scan"      deleteByUrl is at its while test, hasMore being true      *)
(*   "returned"  deleteByUrl returned totalDeleted                         *)
(*   "result"    deleteSource returned its result object                   *)
(* config.chroma.batchSize is 1000; the model pages the collection with a  *)
(* small BATCH_SIZE, and holds up to two full pages and one more record    *)
(* (as 2500 records are to a page size of 1000).                           *)
(***************************************************************************)
BATCH_SIZE == 2
MaxRecords == 2 * BATCH_SIZE + 1

\* String.prototype.startsWith on one host label.
LabelStartsWith(l, p) ==
    \/ l = p
    \/ <<p, l>> \in { <<"com", "community">>, <<"example", "examples">> }

\* getBaseUrl(url): `${parsed.protocol}//${parsed.hostname}`, or the string
\* itself when it does not parse.
getBaseUrl(url) ==
    LET parsed == ParseUrl(url) IN
    [parsed |-> parsed.ok, protocol |-> parsed.protocol, hostname |-> parsed.hostname]

\* (meta.url as string).startsWith(baseUrl), for a stored URL string and a
\* base URL that parsed: the text up to the end of the base's host must agree.
UrlStartsWith(stored, baseUrl) ==
    /\ stored.valid
    /\ baseUrl.parsed
    /\ stored.scheme = baseUrl.protocol
    /\ LET h == stored.host
           b == baseUrl.hostname
       IN /\ Len(b) >= 1
          /\ Len(h) >= Len(b)
          /\ \A i \in 1..(Len(b) - 1) : h[i] = b[i]
          /\ LabelStartsWith(h[Len(b)], b[Len(b)])

\* Stored page URLs and delete targets.
DocA     == Page("/a")
DocLong  == MkUrl("https", <<"example", "com", "evil", "org">>, "", "/")
DocOther == MkUrl("https", <<"other", "org">>, "", "/guide")
DocHttp  == MkUrl("http", ExampleCom, "", "/a")

StoredUrls == {DocA, DocLong, DocOther, DocHttp}

DeleteTargets ==
    { Page("/docs"),
      MkUrl("https", <<"Example", "com">>, "8443", "/x"),
      MkUrl("https", <<"other", "org">>, "", ""),
      InvalidUrl }

\* The collections: record i has id i and any of the stored URLs.
Collections ==
    UNION { [1..n -> StoredUrls] : n \in 0..MaxRecords }

DeleteFailure(message) ==
    [success |-> FALSE, deletedChunks |-> 0, error |-> message]

RawStoreError == "(the message of the error the vector store client threw)"

CrawlAndGuardIdle ==
    /\ CrawlIdle
    /\ GuardIdle

DeleteInit ==
    /\ dPc = "call"
    /\ dUrl \in DeleteTargets
    /\ \E urls \in Collections :
          collection = [i \in 1..Len(urls) |-> [id |-> i, url |-> urls[i]]]
    /\ collection0 = collection
    /\ dOffset = 0
    /\ totalDeleted = 0
    /\ dResult = NoDeleteResult
    /\ CrawlAndGuardIdle
    /\ SearchIdle
    /\ AuxIdle

DeleteFrame ==
    UNCHANGED <<inputVars, crawlVars, fetchVars, timerVars, toolVars, histVars, guardVars,
                searchVars, auxVars, dUrl, collection0>>

\* delete.ts 11-13, 31-38: new URL(url) throws; the catch returns its message.
deleteSource_InvalidUrl ==
    /\ dPc = "call"
    /\ ~ParseUrl(dUrl).ok
    /\ dResult' = DeleteFailure("Invalid URL")
    /\ dPc' = "result"
    /\ UNCHANGED <<collection, dOffset, totalDeleted>>
    /\ DeleteFrame

\* delete.ts 15, vectorstore.ts 331-337: deleteByUrl is entered.
deleteByUrl_Call ==
    /\ dPc = "call"
    /\ ParseUrl(dUrl).ok
    /\ dOffset' = 0
    /\ totalDeleted' = 0
    /\ dPc' = "scan"
    /\ UNCHANGED <<collection, dResult>>
    /\ DeleteFrame

\* col.get({limit, offset}): the page of at most limit records after offset.
GetPage(col, limit, offset) ==
    SubSeq(col, offset + 1, Min(offset + limit, Len(col)))

\* col.delete({ids}): the records with these ids are gone, the others keep
\* their order.
DeleteIds(col, ids) ==
    LET Keep(r) == r.id \notin ids IN SelectSeq(col, Keep)

\* Mutant: the offset advances after every page, deletions or not.
NextOffset_AlwaysAdvance(offset, batchLen, deleted) == offset + batchLen

\* Mutant: the offset never advances.
NextOffset_NeverAdvance(offset, batchLen, deleted) == offset

\* vectorstore.ts 365-367
NextOffset(offset, batchLen, deleted) ==
    IF deleted = 0 THEN offset + batchLen ELSE offset

\* vectorstore.ts 339-370: one iteration of the while loop.
deleteByUrl_Page ==
    /\ dPc = "scan"
    /\ \E batch \in {GetPage(collection, BATCH_SIZE, dOffset)} :
          IF Len(batch) = 0
          THEN /\ dPc' = "returned"
               /\ UNCHANGED <<collection, dOffset, totalDeleted>>
          ELSE \E idsToDelete \in
                   { {batch[i].id : i \in
                        {j \in 1..Len(batch) :
                            UrlStartsWith(batch[j].url, getBaseUrl(dUrl))}} } :
                  /\ collection' = DeleteIds(collection, idsToDelete)
                  /\ totalDeleted' = totalDeleted + Cardinality(idsToDelete)
                  /\ dOffset' = NextOffset(dOffset, Len(batch), Cardinality(idsToDelete))
                  /\ dPc' = IF Len(batch) = BATCH_SIZE THEN "scan" ELSE "returned"
    /\ UNCHANGED dResult
    /\ DeleteFrame

\* vectorstore.ts 332, 340, 361 and delete.ts 31-38: getCollection, col.get or
\* col.delete rejects; deleteSource's catch returns the error's message.
deleteByUrl_StoreError ==
    /\ dPc = "scan"
    /\ dResult' = DeleteFailure(RawStoreError)
    /\ dPc' = "result"
    /\ UNCHANGED <<collection, dOffset, totalDeleted>>
    /\ DeleteFrame

\* delete.ts 15-30: deleteByUrl returned deletedCount.
deleteSource_Return ==
    /\ dPc = "returned"
    /\ dResult' = IF totalDeleted = 0
                  THEN DeleteFailure("No documents found matching this URL")
                  ELSE [success |-> TRUE, deletedChunks |-> totalDeleted, error |-> ""]
    /\ dPc' = "result"
    /\ UNCHANGED <<collection, dOffset, totalDeleted>>
    /\ DeleteFrame

DeleteNext ==
    \/ deleteSource_InvalidUrl
    \/ deleteByUrl_Call
    \/ deleteByUrl_Page
    \/ deleteByUrl_StoreError
    \/ deleteSource_Return

DeleteSpec == DeleteInit /\ [][DeleteNext]_vars

\* The call is run to its end and the store answers: a step of the program
\* that can be taken is taken; an error of the store is never forced.
FairDeleteSpec ==
    DeleteSpec /\ WF_vars(deleteSource_InvalidUrl \/ deleteByUrl_Call
                          \/ deleteByUrl_Page \/ deleteSource_Return)

(***************************************************************************)
(* Retrieval: searchDocs, searchSimilar, semanticSearch, keywordSearch and *)
(* reciprocalRankFusion.                                                   *)
(*                                                                         *)
(* A SearchResult is [key, id, score]: key stands for the dedup key        *)
(* `${url}:${text.slice(0, 100)}` (two records may share it), id for the   *)
(* rest of the record.  A semantic score is in hundredths, a lexical score *)
(* in hundredths of the match ratio, and a fused score is a multiple of    *)
(* 1 / RrfUnit, so that all three are exact integers.                      *)
(***************************************************************************)
RRF_K == 60
MAX_TOP_K == 100
MAX_QUERY_LENGTH == 10000
DefaultTopK == 5

\* The common denominator of 1/(k+1) .. 1/(k+5): no ranked list of the model
\* is longer than five.
RrfUnit == (RRF_K + 1) * (RRF_K + 2) * (RRF_K + 3) * (RRF_K + 4) * (RRF_K + 5)

\* Mutant: the rank is taken 1-based twice over.
RrfTerm_OffByOne(k, i) == RrfUnit \div (k + i + 2)

\* const rrfScore = 1 / (k + i + 1), for the 0-based rank i
RrfTerm(k, i) == RrfUnit \div (k + i + 1)

\* Math.max and Math.min: NaN if either argument is NaN.
MathMax(a, b) ==
    IF a.nan \/ b.nan THEN NaN ELSE IF a.twice >= b.twice THEN a ELSE b

MathMin(a, b) ==
    IF a.nan \/ b.nan THEN NaN ELSE IF a.twice <= b.twice THEN a ELSE b

\* For Array.prototype.slice(0, n) with n >= 0 or NaN: how many elements.
SliceEnd(n) == IF n.nan THEN 0 ELSE n.twice \div 2

Take(seq, n) == SubSeq(seq, 1, Min(n, Len(seq)))

\* Array.prototype.sort((a, b) => b.score - a.score): stable, descending.
InsertByScore(sorted, x) ==
    LET lower == {i \in 1..Len(sorted) : sorted[i].score < x.score}
        at == IF lower = {} THEN Len(sorted) + 1
              ELSE CHOOSE i \in lower : \A j \in lower : i <= j
    IN SubSeq(sorted, 1, at - 1) \o <<x>> \o SubSeq(sorted, at, Len(sorted))

RECURSIVE SortByScore(_)
SortByScore(seq) ==
    IF seq = <<>> THEN <<>>
    ELSE CHOOSE r \in
            { InsertByScore(done, seq[Len(seq)]) :
                done \in {SortByScore(SubSeq(seq, 1, Len(seq) - 1))} } : TRUE

IndexOfKey(seq, key) ==
    IF \E j \in 1..Len(seq) : seq[j].key = key
    THEN CHOOSE j \in 1..Len(seq) : seq[j].key = key
    ELSE 0

\* vectorstore.ts 135-143: the Map seen, as the sequence of its values in
\* insertion order.
RECURSIVE DedupeByKey(_, _, _)
DedupeByKey(results, i, seen) ==
    IF i > Len(results) THEN seen
    ELSE CHOOSE r \in
            { DedupeByKey(results, i + 1, next) :
                next \in { LET j == IndexOfKey(seen, results[i].key) IN
                           IF j = 0 THEN Append(seen, results[i])
                           ELSE IF seen[j].score < results[i].score
                                THEN [seen EXCEPT ![j] = results[i]]
                                ELSE seen } } : TRUE

\* vectorstore.ts 238-259: one forEach over a ranked list; scores is the Map
\* of { result, score } as the sequence of its values in insertion order.
RECURSIVE AddRanks(_, _, _, _)
AddRanks(results, i, k, scores) ==
    IF i > Len(results) THEN scores
    ELSE CHOOSE r \in
            { AddRanks(results, i + 1, k, next) :
                next \in { LET j == IndexOfKey(scores, results[i].key)
                               rrfScore == RrfTerm(k, i - 1)
                           IN IF j = 0
                              THEN Append(scores, [key |-> results[i].key,
                                                   result |-> results[i],
                                                   score |-> rrfScore])
                              ELSE [scores EXCEPT ![j].score = @ + rrfScore] } } : TRUE

\* Mutant: the second ranked list is left out of the fusion.
reciprocalRankFusion_FirstListOnly(results1, results2, n, k) ==
    LET scores == AddRanks(results1, 1, k, <<>>)
        top == Take(SortByScore(scores), SliceEnd(n))
    IN [i \in 1..Len(top) |->
           [key |-> top[i].key, id |-> top[i].result.id, score |-> top[i].score]]

\* reciprocalRankFusion(results1, results2, topK, k)
reciprocalRankFusion(results1, results2, n, k) ==
    LET scores == AddRanks(results2, 1, k, AddRanks(results1, 1, k, <<>>))
        top == Take(SortByScore(scores), SliceEnd(n))
    IN [i \in 1..Len(top) |->
           [key |-> top[i].key, id |-> top[i].result.id, score |-> top[i].score]]

(* ---------------- the search calls the model makes ---------------------- *)
(* sPc is one of                                                           *)
(*   "idle"      no search call is modelled                                *)
(*   "call"      searchDocs(input) has been called                         *)
(*   "semantic"  semanticSearch awaits generateEmbedding / col.query       *)
(*   "ranked"    semanticSearch is past its loop                           *)
(*   "keyword"   keywordSearch is at its while test                        *)
(*   "fuse"      searchSimilar has both ranked lists                       *)
(*   "result"    searchDocs returned its result object                     *)
(*   "threw"     searchDocs rejected: the error reached the caller         *)

\* Queries: kind "text" has the words that match /\b[a-z]{3,}\b/g, in order.
QAlphaBeta == [kind |-> "text", words |-> <<"alpha", "beta">>]  \* "Alpha beta"
QAlpha     == [kind |-> "text", words |-> <<"alpha">>]          \* " alpha "
QShort     == [kind |-> "text", words |-> <<>>]                 \* "ab"
QEmpty     == [kind |-> "empty", words |-> <<>>]                \* ""
QBlank     == [kind |-> "blank", words |-> <<>>]                \* "   "
QLong      == [kind |-> "long", words |-> <<"alpha">>]          \* 10001 characters

Queries == {QAlphaBeta, QAlpha, QShort, QEmpty, QBlank, QLong, NoQuery}

\* query?.trim?.() ?? "" is the empty string.
TrimmedIsEmpty(query) == query.kind \in {"empty", "blank", "missing"}

TopKInputs ==
    { [given |-> "undefined", num |-> NaN], [given |-> "null", num |-> NaN] }
    \cup { [given |-> "number", num |-> n] :
             n \in { Num(-3), Num(0), Num(1), Num(2), Half(2), Num(MAX_TOP_K),
                     Num(MAX_TOP_K + 1), NaN } }

\* Records of the collection: keywords is the stored keyword list, words the
\* words of the stored document text.
RecY  == [id |-> 1, key |-> "y", keywords |-> {"alpha", "beta"}, words |-> {}]
RecX  == [id |-> 2, key |-> "x", keywords |-> {"alpha"}, words |-> {}]
RecW  == [id |-> 3, key |-> "w", keywords |-> {}, words |-> {"beta"}]
RecZ  == [id |-> 4, key |-> "z", keywords |-> {}, words |-> {"gamma"}]
RecY2 == [id |-> 5, key |-> "y", keywords |-> {"beta"}, words |-> {}]

SearchCollections ==
    { <<>>,
      <<RecX, RecY, RecZ>>,
      <<RecY, RecX, RecW, RecZ>>,
      <<RecX, RecY2, RecY, RecW, RecZ>> }

Hit(rec, score) == [key |-> rec.key, id |-> rec.id, score |-> score]

\* What col.query may answer for one query embedding, nearest first
\* (score = 1 - distance, in hundredths).
QueryAnswers(col) ==
    LET ids == {col[i].id : i \in 1..Len(col)} IN
    { a \in { <<>>,
              <<Hit(RecX, 90), Hit(RecY, 80), Hit(RecZ, 70)>>,
              <<Hit(RecZ, 95), Hit(RecX, 60)>>,
              <<Hit(RecY2, 85), Hit(RecZ, 85), Hit(RecY, 40), Hit(RecW, 30)>> } :
        \A i \in 1..Len(a) : a[i].id \in ids }

SearchInit ==
    /\ sPc = "call"
    /\ sInput \in [query : Queries, top_k : TopKInputs,
                   hybrid : {"undefined", "true", "false"},
                   expand_query : {"undefined", "true"}]
    /\ sCollection \in SearchCollections
    /\ topK = NaN
    /\ variants = 0
    /\ allResults = <<>>
    /\ semanticResults = <<>>
    /\ kOffset = 0
    /\ allScored = <<>>
    /\ keywordResults = <<>>
    /\ scans = 0
    /\ fused = FALSE
    /\ sResult = NoSearchResult
    /\ CrawlAndGuardIdle
    /\ DeleteIdle
    /\ AuxIdle

SearchFrame ==
    UNCHANGED <<inputVars, crawlVars, fetchVars, timerVars, toolVars, histVars, guardVars,
                deleteVars, auxVars, sInput, sCollection>>

SearchResultOf(results, query) ==
    [results |-> results, query |-> query, totalResults |-> Len(results),
     hasError |-> FALSE, error |-> ""]

\* hybrid = true, expand_query = false are the defaults (search.ts 15).
useHybrid == IF sInput.hybrid = "undefined" THEN TRUE ELSE sInput.hybrid = "true"

useQueryExpansion ==
    IF sInput.expand_query = "undefined" THEN FALSE ELSE sInput.expand_query = "true"

\* search.ts 17-27: the trimmed query is longer than MAX_QUERY_LENGTH.
searchDocs_TooLong ==
    /\ sPc = "call"
    /\ sInput.query.kind = "long"
    /\ sResult' = [results |-> <<>>, query |-> "(the first 100 characters)...",
                   totalResults |-> 0, hasError |-> TRUE,
                   error |-> "Query exceeds maximum length of 10000 characters"]
    /\ sPc' = "result"
    /\ UNCHANGED <<topK, variants, allResults, semanticResults, kOffset,
                   allScored, keywordResults, scans, fused>>
    /\ SearchFrame

\* search.ts 29-35: the trimmed query is empty.
searchDocs_Empty ==
    /\ sPc = "call"
    /\ TrimmedIsEmpty(sInput.query)
    /\ sResult' = SearchResultOf(<<>>, "")
    /\ sPc' = "result"
    /\ UNCHANGED <<topK, variants, allResults, semanticResults, kOffset,
                   allScored, keywordResults, scans, fused>>
    /\ SearchFrame

\* Mutant: top_k is passed on as given.
validatedTopK_Unclamped(top_k) ==
    IF top_k.given = "number" THEN top_k.num ELSE Num(DefaultTopK)

\* search.ts 15, 38: Math.min(Math.max(1, top_k ?? 5), MAX_TOP_K)
validatedTopK(top_k) ==
    MathMin(MathMax(Num(1), IF top_k.given = "number" THEN top_k.num
                            ELSE Num(DefaultTopK)),
            Num(MAX_TOP_K))

\* search.ts 38-44, vectorstore.ts 74-84: searchSimilar is called.
searchDocs_Search ==
    /\ sPc = "call"
    /\ sInput.query.kind = "text"
    /\ topK' = validatedTopK(sInput.top_k)
    /\ variants' = IF useQueryExpansion THEN 4 ELSE 1
    /\ sPc' = "semantic"
    /\ UNCHANGED <<allResults, semanticResults, kOffset, allScored,
                   keywordResults, scans, fused, sResult>>
    /\ SearchFrame

\* vectorstore.ts 109-133: one query variant is embedded and looked up with
\* nResults = topK * 2.  What the store does with nResults = NaN is not the
\* program's to say: it may answer with any number of candidates.
semanticSearch_Query ==
    /\ sPc = "semantic"
    /\ variants > 0
    /\ \E answer \in QueryAnswers(sCollection) :
          allResults' = allResults \o
              (IF topK.nan THEN answer ELSE Take(answer, topK.twice))
    /\ variants' = variants - 1
    /\ UNCHANGED <<sPc, topK, semanticResults, kOffset, allScored,
                   keywordResults, scans, fused, sResult>>
    /\ SearchFrame

\* vectorstore.ts 135-145: the variants' hits are deduplicated and sorted.
semanticSearch_Return ==
    /\ sPc = "semantic"
    /\ variants = 0
    /\ semanticResults' = SortByScore(DedupeByKey(allResults, 1, <<>>))
    /\ sPc' = "ranked"
    /\ UNCHANGED <<topK, variants, allResults, kOffset, allScored,
                   keywordResults, scans, fused, sResult>>
    /\ SearchFrame

\* Mutant: the hybrid flag is ignored.
searchSimilar_SemanticOnly_Disabled == FALSE

\* vectorstore.ts 86
searchSimilar_SemanticOnly == ~useHybrid

\* vectorstore.ts 86-88, search.ts 46-50: hybrid is off.
searchSimilar_ReturnSemantic ==
    /\ sPc = "ranked"
    /\ searchSimilar_SemanticOnly
    /\ sResult' = SearchResultOf(Take(semanticResults, SliceEnd(topK)), "(trimmed query)")
    /\ sPc' = "result"
    /\ UNCHANGED <<topK, variants, allResults, semanticResults, kOffset,
                   allScored, keywordResults, scans, fused>>
    /\ SearchFrame

\* vectorstore.ts 91, 157-165: keywordSearch is entered.
keywordSearch_Call ==
    /\ sPc = "ranked"
    /\ ~searchSimilar_SemanticOnly
    /\ IF sInput.query.words = <<>>
       THEN /\ keywordResults' = <<>>
            /\ sPc' = "fuse"
       ELSE /\ UNCHANGED keywordResults
            /\ sPc' = "keyword"
    /\ kOffset' = 0
    /\ allScored' = <<>>
    /\ UNCHANGED <<topK, variants, allResults, semanticResults, scans, fused, sResult>>
    /\ SearchFrame

\* Mutant: the match count is not divided by the number of query words.
MatchScore_Unnormalised(rec, queryWords) ==
    100 * Cardinality({i \in 1..Len(queryWords) :
                         queryWords[i] \in rec.keywords \cup rec.words})

\* vectorstore.ts 189-198: the match ratio of one record, in hundredths.
MatchScore(rec, queryWords) ==
    LET matchCount ==
            Cardinality({i \in 1..Len(queryWords) :
                            queryWords[i] \in rec.keywords \cup rec.words})
    IN (100 * matchCount) \div Len(queryWords)

\* vectorstore.ts 181-208: the records of one page that match.
RECURSIVE ScoreBatch(_, _, _, _)
ScoreBatch(batch, i, queryWords, scored) ==
    IF i > Len(batch) THEN scored
    ELSE CHOOSE r \in
            { ScoreBatch(batch, i + 1, queryWords, next) :
                next \in { IF MatchScore(batch[i], queryWords) > 0
                           THEN Append(scored, Hit(batch[i],
                                            MatchScore(batch[i], queryWords)))
                           ELSE scored } } : TRUE

\* vectorstore.ts 168-222: one iteration of the while loop and, after the
\* last, the sort and the cut to topK * 2 (nothing for NaN).
keywordSearch_Page ==
    /\ sPc = "keyword"
    /\ scans' = scans + 1
    /\ \E batch \in {GetPage(sCollection, BATCH_SIZE, kOffset)} :
       \E scored \in {ScoreBatch(batch, 1, sInput.query.words, allScored)} :
          /\ allScored' = scored
          /\ kOffset' = kOffset + Len(batch)
          /\ IF Len(batch) = BATCH_SIZE
             THEN /\ sPc' = "keyword"
                  /\ UNCHANGED keywordResults
             ELSE /\ sPc' = "fuse"
                  /\ keywordResults' =
                        Take(SortByScore(scored), IF topK.nan THEN 0 ELSE topK.twice)
    /\ UNCHANGED <<topK, variants, allResults, semanticResults, fused, sResult>>
    /\ SearchFrame

\* vectorstore.ts 94-96, search.ts 46-50: the two lists are fused.
searchSimilar_Fuse ==
    /\ sPc = "fuse"
    /\ fused' = TRUE
    /\ \E fusedResults \in
           {reciprocalRankFusion(semanticResults, keywordResults, topK, RRF_K)} :
          sResult' = SearchResultOf(fusedResults, "(trimmed query)")
    /\ sPc' = "result"
    /\ UNCHANGED <<topK, variants, allResults, semanticResults, kOffset,
                   allScored, keywordResults, scans>>
    /\ SearchFrame

\* Messages of the errors the embedding client and the store client throw.
EmbeddingErrors ==
    { "Failed to generate embedding. Please try again later.",
      "Invalid response from embedding service.",
      "fetch failed" }

StoreErrors == {RawStoreError}

\* vectorstore.ts 78, 110, 112, 169 and search.ts 40: getCollection,
\* generateEmbedding, col.query or col.get rejects; searchDocs has no catch.
searchDocs_Throws ==
    /\ \/ /\ sPc = "semantic" /\ variants > 0
          /\ \E m \in EmbeddingErrors \cup StoreErrors :
                sResult' = [NoSearchResult EXCEPT !.hasError = TRUE, !.error = m]
       \/ /\ sPc = "keyword"
          /\ \E m \in StoreErrors :
                sResult' = [NoSearchResult EXCEPT !.hasError = TRUE, !.error = m]
    /\ sPc' = "threw"
    /\ UNCHANGED <<topK, variants, allResults, semanticResults, kOffset,
                   allScored, keywordResults, scans, fused>>
    /\ SearchFrame

SearchNext ==
    \/ searchDocs_TooLong
    \/ searchDocs_Empty
    \/ searchDocs_Search
    \/ semanticSearch_Query
    \/ semanticSearch_Return
    \/ searchSimilar_ReturnSemantic
    \/ keywordSearch_Call
    \/ keywordSearch_Page
    \/ searchSimilar_Fuse
    \/ searchDocs_Throws

SearchSpec == SearchInit /\ [][SearchNext]_vars

(* ---------------- reciprocalRankFusion on its own ------------------------ *)
(* The two ranked lists are drawn from all lists of up to MaxRanked results *)
(* over four dedup keys: the first without a repeated key (semanticSearch   *)
(* deduplicates), the second with any keys.                                 *)
MaxRanked == 3

RrfKeys == {"x", "y", "z", "w"}

KeyLists == UNION { [1..n -> RrfKeys] : n \in 0..MaxRanked }

Ranked(keys, firstId) ==
    [i \in 1..Len(keys) |-> [key |-> keys[i], id |-> firstId + i, score |-> 100 - i]]

RrfInit ==
    /\ sPc = "fuse"
    /\ topK \in {Num(n) : n \in 1..(MaxRanked + 1)}
    /\ sInput = [query |-> QAlphaBeta, top_k |-> [given |-> "number", num |-> topK],
                 hybrid |-> "true", expand_query |-> "undefined"]
    /\ sCollection = <<>>
    /\ variants = 0
    /\ allResults = <<>>
    /\ \E keys \in KeyLists :
          /\ \A i, j \in 1..Len(keys) : keys[i] = keys[j] => i = j
          /\ semanticResults = Ranked(keys, 0)
    /\ \E keys \in KeyLists : keywordResults = Ranked(keys, 10)
    /\ kOffset = 0
    /\ allScored = <<>>
    /\ scans = 0
    /\ fused = FALSE
    /\ sResult = NoSearchResult
    /\ CrawlAndGuardIdle
    /\ DeleteIdle
    /\ AuxIdle

RrfNext == searchSimilar_Fuse

RrfSpec == RrfInit /\ [][RrfNext]_vars

(***************************************************************************)
(* Ingestion: chunkPages (chunker.ts), addChunks (vectorstore.ts 30-64)    *)
(* and generateEmbeddings (embedder, part_002 51-66).                      *)
(*                                                                         *)
(* A string is modelled by what the chunker reads of it.  A URL is the     *)
(* sequence of its character codes.  A text is a sequence of pieces        *)
(* [p, from, to]: the words from (exclusive) to to (inclusive) of          *)
(* paragraph p of the page, so that a whole paragraph of n words is the    *)
(* piece [p, 0, n], paragraphs joined by "\n\n" are the sequence of their  *)
(* pieces and text.split(/\s+/).length is the sum of to - from.  White     *)
(* space is not told apart: words joined by " " are the words.  The title  *)
(* is a tag; keywords bear on no property here and are left out.           *)
(*                                                                         *)
(* iPc:                                                                    *)
(*   "idle"     no ingestion is modelled                                   *)
(*   "call"     crawlAndIndex is about to call chunkPages(pages)           *)
(*   "chunked"  chunkPages returned; addChunks(chunks) is entered          *)
(*   "embed"    addChunks awaits generateEmbeddings(documents)             *)
(*   "done"     addChunks returned or threw                                *)
(***************************************************************************)
DEFAULT_CHUNK_SIZE == 500
DEFAULT_CHUNK_OVERLAP == 100
MIN_CHUNK_SIZE == 50
EMBED_BATCH_SIZE == 2

(* ---------------- generateChunkId / simpleHash --------------------------- *)

\* A 32-bit integer is kept as its unsigned value hi * 2^16 + lo.
Word16 == 2^16
Int32Zero == [hi |-> 0, lo |-> 0]

\* chunker.ts 229-230: hash = ToInt32((hash << 5) - hash + char), which is
\* 31 * hash + char modulo 2^32.
HashStep(hash, char) ==
    LET lo == hash.lo * 31 + char
        hi == hash.hi * 31 + (lo \div Word16)
    IN [hi |-> hi % Word16, lo |-> lo % Word16]

\* chunker.ts 227-231: the for loop from character i on.
RECURSIVE HashFrom(_, _, _)
HashFrom(str, i, hash) ==
    IF i > Len(str) THEN hash
    ELSE HashFrom(str, i + 1, HashStep(hash, str[i]))

\* Math.abs of the signed value: 2^32 - u when the sign bit is set.
MathAbs(hash) ==
    IF hash.hi < Word16 \div 2 THEN hash
    ELSE IF hash.lo = 0 THEN [hi |-> Word16 - hash.hi, lo |-> 0]
    ELSE [hi |-> Word16 - 1 - hash.hi, lo |-> Word16 - hash.lo]

\* Number.prototype.toString(36): the base-36 digits, most significant first.
RECURSIVE ToString36(_)
ToString36(n) ==
    LET t == (n.hi % 36) * Word16 + n.lo
        q == [hi |-> n.hi \div 36, lo |-> t \div 36]
    IN IF q = Int32Zero THEN <<t % 36>> ELSE Append(ToString36(q), t % 36)

\* chunker.ts 225-233
simpleHash(str) == ToString36(MathAbs(HashFrom(str, 1, Int32Zero)))

\* Mutant: the ID depends on the run that makes it.
generateChunkId_PerRun(url, index) ==
    [urlHash |-> simpleHash(url), index |-> index + 1000 * round]

\* chunker.ts 220-223: `${urlHash}-${index}`
generateChunkId(url, index) ==
    [urlHash |-> simpleHash(url), index |-> index]

(* ---------------- the chunk splitter ------------------------------------- *)

Piece(p, from, to) == [p |-> p, from |-> from, to |-> to]

\* text.split(/\s+/).length
RECURSIVE WordCount(_)
WordCount(text) ==
    IF text = <<>> THEN 0
    ELSE (text[1].to - text[1].from) + WordCount(Tail(text))

\* words.slice(start, end).join(" ")
RECURSIVE SliceWords(_, _, _)
SliceWords(text, start, end) ==
    IF text = <<>> \/ end <= 0 THEN <<>>
    ELSE LET n == text[1].to - text[1].from
             rest == SliceWords(Tail(text), start - n, end - n)
         IN IF start >= n THEN rest
            ELSE <<Piece(text[1].p,
                         text[1].from + (IF start > 0 THEN start ELSE 0),
                         text[1].from + Min(end, n))>> \o rest

\* chunker.ts 130-143: the while loop from `start` on.
RECURSIVE SlideFrom(_, _, _, _, _)
SlideFrom(text, start, out, chunkSize, chunkOverlap) ==
    IF ~(start < WordCount(text)) THEN out
    ELSE LET end == Min(start + chunkSize, WordCount(text))
             pushed == IF end > start /\ end - start >= MIN_CHUNK_SIZE
                       THEN Append(out, SliceWords(text, start, end))
                       ELSE out
             next == start + chunkSize - chunkOverlap
         IN IF next >= WordCount(text) - chunkOverlap /\ Len(pushed) > 0
            THEN pushed
            ELSE SlideFrom(text, next, pushed, chunkSize, chunkOverlap)

\* chunker.ts 121-146
slidingWindowChunk(text, chunkSize, chunkOverlap) ==
    IF WordCount(text) <= chunkSize THEN <<text>>
    ELSE SlideFrom(text, 0, <<>>, chunkSize, chunkOverlap)

\* chunker.ts 94-99: the overlap loop from paragraph i of currentChunk down.
RECURSIVE OverlapFrom(_, _, _, _, _)
OverlapFrom(currentChunk, i, overlapParagraphs, overlapSize, chunkOverlap) ==
    IF i >= 1 /\ overlapSize < chunkOverlap
    THEN OverlapFrom(currentChunk, i - 1,
                     <<currentChunk[i]>> \o overlapParagraphs,
                     overlapSize + WordCount(<<currentChunk[i]>>), chunkOverlap)
    ELSE [paragraphs |-> overlapParagraphs, size |-> overlapSize]

\* chunker.ts 72-107: one iteration of the loop over the paragraphs.  st is
\* [chunks, currentChunk, currentSize, carried]; carried is a ghost: the
\* overlapSize of every chunk closed at lines 90-103.
SemanticStep(st, paragraph, maxChunkSize, chunkOverlap) ==
    LET paragraphWords == WordCount(<<paragraph>>) IN
    IF paragraphWords > maxChunkSize
    THEN [st EXCEPT
            !.chunks = (IF Len(st.currentChunk) > 0
                        THEN Append(st.chunks, st.currentChunk) ELSE st.chunks)
                       \o slidingWindowChunk(<<paragraph>>, maxChunkSize, chunkOverlap),
            !.currentChunk = <<>>,
            !.currentSize = 0]
    ELSE IF st.currentSize + paragraphWords > maxChunkSize /\ Len(st.currentChunk) > 0
    THEN LET ov == OverlapFrom(st.currentChunk, Len(st.currentChunk), <<>>, 0,
                               chunkOverlap)
         IN [chunks |-> Append(st.chunks, st.currentChunk),
             currentChunk |-> Append(ov.paragraphs, paragraph),
             currentSize |-> ov.size + paragraphWords,
             carried |-> Append(st.carried, ov.size)]
    ELSE [st EXCEPT !.currentChunk = Append(st.currentChunk, paragraph),
                    !.currentSize = st.currentSize + paragraphWords]

RECURSIVE SemanticFold(_, _, _, _, _)
SemanticFold(paragraphs, i, st, maxChunkSize, chunkOverlap) ==
    IF i > Len(paragraphs) THEN st
    ELSE SemanticFold(paragraphs, i + 1,
                      SemanticStep(st, paragraphs[i], maxChunkSize, chunkOverlap),
                      maxChunkSize, chunkOverlap)

\* chunks.filter((c) => c.split(/\s+/).length >= MIN_CHUNK_SIZE)
RECURSIVE FilterMinSize(_)
FilterMinSize(list) ==
    IF list = <<>> THEN <<>>
    ELSE (IF WordCount(Head(list)) >= MIN_CHUNK_SIZE THEN <<Head(list)>> ELSE <<>>)
         \o FilterMinSize(Tail(list))

\* chunker.ts 65-115, with the ghost carried.
SemanticRun(paragraphs, maxChunkSize, chunkOverlap) ==
    LET st == SemanticFold(paragraphs, 1,
                  [chunks |-> <<>>, currentChunk |-> <<>>, currentSize |-> 0,
                   carried |-> <<>>], maxChunkSize, chunkOverlap)
        all == IF Len(st.currentChunk) > 0 /\ st.currentSize >= MIN_CHUNK_SIZE
               THEN Append(st.chunks, st.currentChunk) ELSE st.chunks
    IN [chunks |-> FilterMinSize(all), carried |-> st.carried]

semanticChunkText(paragraphs, maxChunkSize, chunkOverlap) ==
    SemanticRun(paragraphs, maxChunkSize, chunkOverlap).chunks

(* ---------------- chunkPages --------------------------------------------- *)

\* "https://example.com/Aa", "https://example.com/BB" and
\* "https://example.com/docs" as character codes.
StrSite == <<104, 116, 116, 112, 115, 58, 47, 47, 101, 120, 97, 109, 112, 108,
             101, 46, 99, 111, 109, 47>>
StrAa   == StrSite \o <<65, 97>>
StrBB   == StrSite \o <<66, 66>>
StrDocs == StrSite \o <<100, 111, 99, 115>>
IngestUrls == {StrAa, StrBB, StrDocs}

\* page.content as the word counts of its paragraphs.
IngestContents ==
    { <<20>>, <<60>>, <<300, 300>>, <<250, 100, 200>>, <<600>>, <<200, 600, 60>> }

IngestPages ==
    { [url |-> u, title |-> "title", content |-> c] :
         u \in IngestUrls, c \in IngestContents }

\* The pages of one crawl: one page, or two pages with different URLs.
IngestPageLists ==
    { <<p>> : p \in IngestPages }
    \cup { pq \in { <<p, q>> : p \in IngestPages, q \in IngestPages } :
               pq[1].url # pq[2].url /\ pq[1].content # pq[2].content }

IngestOptionSets ==
    { [chunkSize |-> s, chunkOverlap |-> o, semantic |-> m] :
         s \in {NotGiven, [given |-> TRUE, val |-> 300]},
         o \in {NotGiven, [given |-> TRUE, val |-> 50]},
         m \in {"undefined", "false"} }

\* page.content.split(/\n\n+|\n(?=#{1,3}\s)/)
ParagraphsOf(page) ==
    [i \in 1..Len(page.content) |-> Piece(i, 0, page.content[i])]

NoContext == [title |-> "", url |-> <<>>, firstParagraph |-> 0]

\* chunker.ts 56-59: `Document: "${title}" from ${url}. ${firstParagraph}...`
generateDocumentContext(page) ==
    [title |-> page.title, url |-> page.url, firstParagraph |-> 1]

\* chunker.ts 11-13
chunkSizeOf(options) ==
    IF options.chunkSize.given THEN options.chunkSize.val ELSE DEFAULT_CHUNK_SIZE

chunkOverlapOf(options) ==
    IF options.chunkOverlap.given THEN options.chunkOverlap.val
    ELSE DEFAULT_CHUNK_OVERLAP

useSemantic(options) ==
    IF options.semantic = "undefined" THEN TRUE ELSE options.semantic = "true"

\* chunker.ts 22-24
pageChunksOf(page, options) ==
    IF useSemantic(options)
    THEN semanticChunkText(ParagraphsOf(page), chunkSizeOf(options),
                           chunkOverlapOf(options))
    ELSE slidingWindowChunk(ParagraphsOf(page), chunkSizeOf(options),
                            chunkOverlapOf(options))

\* Mutant: the chunks of a page are numbered from 1.
ChunksOfPage_OneBased(page, options) ==
    LET pageChunks == pageChunksOf(page, options) IN
    [i \in 1..Len(pageChunks) |->
        [id |-> generateChunkId(page.url, i - 1),
         text |-> pageChunks[i],
         metadata |-> [url |-> page.url, title |-> page.title,
                       chunkIndex |-> i, totalChunks |-> Len(pageChunks),
                       context |-> generateDocumentContext(page)]]]

\* chunker.ts 19-46: the chunks of one page.
ChunksOfPage(page, options) ==
    LET pageChunks == pageChunksOf(page, options) IN
    [i \in 1..Len(pageChunks) |->
        [id |-> generateChunkId(page.url, i - 1),
         text |-> pageChunks[i],
         metadata |-> [url |-> page.url, title |-> page.title,
                       chunkIndex |-> i - 1, totalChunks |-> Len(pageChunks),
                       context |-> generateDocumentContext(page)]]]

\* chunker.ts 10-50
RECURSIVE chunkPages(_, _)
chunkPages(pageList, options) ==
    IF pageList = <<>> THEN <<>>
    ELSE ChunksOfPage(Head(pageList), options) \o chunkPages(Tail(pageList), options)

\* Ghost: per page, the overlapSize of each chunk the semantic strategy
\* closed for size.
CarriedOf(pageList, options) ==
    [i \in 1..Len(pageList) |->
        IF useSemantic(options)
        THEN SemanticRun(ParagraphsOf(pageList[i]), chunkSizeOf(options),
                         chunkOverlapOf(options)).carried
        ELSE <<>>]

(* ---------------- addChunks and generateEmbeddings ----------------------- *)

\* A string made of a context and a text: `${context}\n\n${text}`, or the
\* text alone for NoContext.
Rendered(context, text) == [context |-> context, text |-> text]

\* The vector the embedding service answers for a text.
Embedding(text) == [of |-> text]

\* vectorstore.ts 36-39
EmbeddingInput(c) ==
    IF c.metadata.context # NoContext
    THEN Rendered(c.metadata.context, c.text)
    ELSE Rendered(NoContext, c.text)

\* Mutant: the contextual text is stored for display.
StoredDocument_Contextual(c) == Rendered(c.metadata.context, c.text)

\* vectorstore.ts 54: const originalTexts = chunks.map((c) => c.text)
StoredDocument(c) == Rendered(NoContext, c.text)

\* vectorstore.ts 33-61: the record col.add is given for chunk i.
RecordOfChunk(i) ==
    [id |-> allChunks[i].id,
     document |-> StoredDocument(allChunks[i]),
     embedding |-> embeddings[i],
     metadata |-> [url |-> allChunks[i].metadata.url,
                   title |-> allChunks[i].metadata.title,
                   chunkIndex |-> allChunks[i].metadata.chunkIndex,
                   totalChunks |-> allChunks[i].metadata.totalChunks,
                   indexedAt |-> round]]

IdsOf(records) == {records[i].id : i \in 1..Len(records)}

HasRepeatedId(records) ==
    \E i, j \in 1..Len(records) : i < j /\ records[i].id = records[j].id

\* The store's add, record by record.  What it does with an ID it already
\* holds is the store's choice: "ignore" keeps the old record, "replace"
\* puts the new one in its place ("reject" refuses the whole call).
RECURSIVE AddRecords(_, _, _)
AddRecords(col, records, policy) ==
    IF records = <<>> THEN col
    ELSE LET r == Head(records)
             at == {i \in 1..Len(col) : col[i].id = r.id}
         IN AddRecords(IF at = {} THEN Append(col, r)
                       ELSE IF policy = "replace"
                            THEN [i \in 1..Len(col) |-> IF i \in at THEN r ELSE col[i]]
                            ELSE col,
                       Tail(records), policy)

IngestFrame ==
    UNCHANGED <<inputVars, crawlVars, fetchVars, timerVars, toolVars, histVars, guardVars,
                deleteVars, searchVars, listVars, handleVars, stepVars,
                iPages, iOptions, addPolicy>>

IngestInit ==
    /\ iPc = "call"
    /\ iPages \in IngestPageLists
    /\ iOptions \in IngestOptionSets
    /\ addPolicy \in {"ignore", "replace", "reject"}
    /\ round = 1
    /\ allChunks = <<>>
    /\ allChunks1 = <<>>
    /\ carried = <<>>
    /\ documents = <<>>
    /\ embeddings = <<>>
    /\ embedded = <<>>
    /\ store = <<>>
    /\ store1 = <<>>
    /\ iResult = NoIngestResult
    /\ CrawlAndGuardIdle
    /\ DeleteIdle
    /\ SearchIdle
    /\ ListIdle
    /\ HandleIdle
    /\ StepIdle

\* crawl.ts 70: const chunks = chunkPages(pages)
chunkPages_Call ==
    /\ iPc = "call"
    /\ allChunks' = chunkPages(iPages, iOptions)
    /\ carried' = CarriedOf(iPages, iOptions)
    /\ iPc' = "chunked"
    /\ UNCHANGED <<round, allChunks1, documents, embeddings, embedded, store,
                   store1, iResult>>
    /\ IngestFrame

\* vectorstore.ts 31-51: the collection handle is there, the texts to embed
\* are built and generateEmbeddings is called.
addChunks_Call ==
    /\ iPc = "chunked"
    /\ documents' = [i \in 1..Len(allChunks) |-> EmbeddingInput(allChunks[i])]
    /\ embeddings' = <<>>
    /\ embedded' = <<>>
    /\ iPc' = "embed"
    /\ UNCHANGED <<round, allChunks, allChunks1, carried, store, store1, iResult>>
    /\ IngestFrame

\* Mutant: the vectors of a batch come back in reverse order.
BatchResults_Reversed(batch) ==
    [i \in 1..Len(batch) |-> Embedding(batch[Len(batch) + 1 - i])]

\* part_002 55-57: Promise.all keeps the order of the batch.
BatchResults(batch) ==
    [i \in 1..Len(batch) |-> Embedding(batch[i])]

\* part_002 54-62: one batch of texts is embedded.
generateEmbeddings_Batch ==
    /\ iPc = "embed"
    /\ Len(embeddings) < Len(documents)
    /\ \E batch \in {SubSeq(documents, Len(embeddings) + 1,
                            Min(Len(embeddings) + EMBED_BATCH_SIZE, Len(documents)))} :
          /\ embedded' = embedded \o batch
          /\ embeddings' = embeddings \o BatchResults(batch)
    /\ UNCHANGED <<iPc, round, allChunks, allChunks1, carried, documents, store,
                   store1, iResult>>
    /\ IngestFrame

\* vectorstore.ts 56-63: col.add is given the ids, the original texts, the
\* metadata and the vectors, and addChunks returns chunks.length, unless the
\* store refuses IDs it holds already or IDs repeated in the call.
addChunks_Add ==
    /\ iPc = "embed"
    /\ Len(embeddings) = Len(documents)
    /\ \E records \in {[i \in 1..Len(allChunks) |-> RecordOfChunk(i)]} :
          IF addPolicy = "reject"
             /\ (HasRepeatedId(records) \/ IdsOf(records) \cap IdsOf(store) # {})
          THEN /\ UNCHANGED store
               /\ iResult' = [threw |-> TRUE, count |-> 0]
          ELSE /\ store' = AddRecords(store, records, addPolicy)
               /\ iResult' = [threw |-> FALSE, count |-> Len(allChunks)]
    /\ iPc' = "done"
    /\ UNCHANGED <<round, allChunks, allChunks1, carried, documents, embeddings,
                   embedded, store1>>
    /\ IngestFrame

\* vectorstore.ts 31, 51, 56: getCollection, generateEmbedding or col.add
\* rejects; addChunks throws and nothing is added.
addChunks_Throws ==
    /\ iPc \in {"chunked", "embed"}
    /\ iResult' = [threw |-> TRUE, count |-> 0]
    /\ iPc' = "done"
    /\ UNCHANGED <<round, allChunks, allChunks1, carried, documents, embeddings,
                   embedded, store, store1>>
    /\ IngestFrame

\* The same pages, unchanged, are ingested once more with the same options.
Reingest ==
    /\ iPc = "done"
    /\ round = 1
    /\ round' = 2
    /\ allChunks1' = allChunks
    /\ store1' = store
    /\ allChunks' = <<>>
    /\ carried' = <<>>
    /\ documents' = <<>>
    /\ embeddings' = <<>>
    /\ embedded' = <<>>
    /\ iPc' = "call"
    /\ UNCHANGED <<store, iResult>>
    /\ IngestFrame

IngestNext ==
    \/ chunkPages_Call
    \/ addChunks_Call
    \/ generateEmbeddings_Batch
    \/ addChunks_Add
    \/ addChunks_Throws
    \/ Reingest

IngestSpec == IngestInit /\ [][IngestNext]_vars

(* ---------------- listSources ------------------------------------------- *)
(* lPc is one of                                                            *)
(*   "idle"      no listSources call is modelled                            *)
(*   "call"      listIndexedSources() has been called                       *)
(*   "scan"      listSources is at its while test                           *)
(*   "returned"  listIndexedSources returned its result object              *)
(*   "threw"     col.get rejected and the call rejected with it             *)
MaxListed == 4

\* The pages whose chunks are in the store: two of one base URL, one of the
\* same host under another scheme, one of another host.
ListedUrls == {DocA, Page("/b"), DocHttp, DocOther}

\* The metadata addChunks wrote (vectorstore.ts 40-47), as far as listSources
\* reads it; indexedAt is the time of the addChunks call, 1 before 2.
ListedRecords ==
    { [url |-> u, title |-> u.path, indexedAt |-> t] : u \in ListedUrls, t \in 1..2 }

ListedCollections == UNION { [1..n -> ListedRecords] : n \in 0..MaxListed }

IndexOfBase(map, baseUrl) ==
    IF \E j \in 1..Len(map) : map[j].url = baseUrl
    THEN CHOOSE j \in 1..Len(map) : map[j].url = baseUrl
    ELSE 0

\* Mutant: the map is keyed by the page URL instead of the base URL.
AddMeta_KeyedByPage(map, meta) ==
    LET key == [parsed |-> TRUE, protocol |-> meta.url.scheme,
                hostname |-> meta.url.host \o <<meta.url.path>>]
        j == IndexOfBase(map, key)
    IN IF j = 0
       THEN Append(map, [url |-> key, title |-> meta.title,
                         pageUrls |-> {meta.url}, chunkCount |-> 1,
                         indexedAt |-> meta.indexedAt])
       ELSE [map EXCEPT ![j].pageUrls = @ \cup {meta.url},
                        ![j].chunkCount = @ + 1]

\* vectorstore.ts 298-316: one metadata record is accumulated into sourceMap.
AddMeta(map, meta) ==
    LET baseUrl == getBaseUrl(meta.url)
        j == IndexOfBase(map, baseUrl)
    IN IF j = 0
       THEN Append(map, [url |-> baseUrl, title |-> meta.title,
                         pageUrls |-> {meta.url}, chunkCount |-> 1,
                         indexedAt |-> meta.indexedAt])
       ELSE [map EXCEPT ![j].pageUrls = @ \cup {meta.url},
                        ![j].chunkCount = @ + 1]

\* vectorstore.ts 298: for (const meta of batch.metadatas)
RECURSIVE AddBatch(_, _, _)
AddBatch(map, batch, i) ==
    IF i > Len(batch) THEN map
    ELSE CHOOSE r \in
            { AddBatch(next, batch, i + 1) : next \in {AddMeta(map, batch[i])} } : TRUE

\* vectorstore.ts 322-328 and search.ts 56-63
SourceInfos(map) ==
    [j \in 1..Len(map) |->
        [url |-> map[j].url, title |-> map[j].title,
         pageCount |-> Cardinality(map[j].pageUrls),
         chunkCount |-> map[j].chunkCount,
         indexedAt |-> map[j].indexedAt]]

ListFrame ==
    UNCHANGED <<inputVars, crawlVars, fetchVars, timerVars, toolVars, histVars, guardVars,
                deleteVars, searchVars, ingestVars, handleVars, stepVars,
                lCollection>>

ListInit ==
    /\ lPc = "call"
    /\ lCollection \in ListedCollections
    /\ lOffset = 0
    /\ sourceMap = <<>>
    /\ lResult = NoListResult
    /\ CrawlAndGuardIdle
    /\ DeleteIdle
    /\ SearchIdle
    /\ IngestIdle
    /\ HandleIdle
    /\ StepIdle

\* search.ts 57, vectorstore.ts 276-286
listSources_Call ==
    /\ lPc = "call"
    /\ lPc' = "scan"
    /\ lOffset' = 0
    /\ sourceMap' = <<>>
    /\ UNCHANGED lResult
    /\ ListFrame

\* vectorstore.ts 287-329, search.ts 59-62: one iteration of the while loop
\* and, after the last, the result.
listSources_Page ==
    /\ lPc = "scan"
    /\ \E batch \in {GetPage(lCollection, BATCH_SIZE, lOffset)} :
       \E map \in {AddBatch(sourceMap, batch, 1)} :
          /\ sourceMap' = map
          /\ lOffset' = lOffset + Len(batch)
          /\ IF Len(batch) = BATCH_SIZE
             THEN /\ lPc' = "scan"
                  /\ UNCHANGED lResult
             ELSE /\ lPc' = "returned"
                  /\ lResult' = [sources |-> SourceInfos(map),
                                 totalSources |-> Len(map)]
    /\ ListFrame

\* vectorstore.ts 277, 288: getCollection or col.get rejects; neither
\* listSources nor listIndexedSources has a catch.
listSources_Throws ==
    /\ lPc = "scan"
    /\ lPc' = "threw"
    /\ UNCHANGED <<lOffset, sourceMap, lResult>>
    /\ ListFrame

ListNext ==
    \/ listSources_Call
    \/ listSources_Page
    \/ listSources_Throws

ListSpec == ListInit /\ [][ListNext]_vars

(* ---------------- getCollection ------------------------------------------ *)
(* NumCallers operations (addChunks, searchSimilar, listSources, deleteByUrl) *)
(* start in one process whose handle is not yet there; each awaits           *)
(* getCollection(), and may be followed by a later operation.  hPc[c] is     *)
(*   "start"     the call is at line 13                                      *)
(*   "awaiting"  the call awaits client.getOrCreateCollection (line 18)      *)
(*   "returned"  the call returned hGot[c]                                   *)
(*   "failed"    getOrCreateCollection rejected and the call with it         *)
NumCallers == 3
MaxSetups == 4

Callers == 1..NumCallers

HandleFrame ==
    UNCHANGED <<inputVars, crawlVars, fetchVars, timerVars, toolVars, histVars, guardVars,
                deleteVars, searchVars, ingestVars, listVars, stepVars>>

HandleInit ==
    /\ hPc = [c \in Callers |-> "start"]
    /\ colHandle = 0
    /\ hClient = 0
    /\ setups = 0
    /\ hGot = [c \in Callers |-> 0]
    /\ CrawlAndGuardIdle
    /\ DeleteIdle
    /\ SearchIdle
    /\ IngestIdle
    /\ ListIdle
    /\ StepIdle

\* vectorstore.ts 13-15: if (collection) return collection
getCollection_Cached(c) ==
    /\ hPc[c] = "start"
    /\ colHandle # 0
    /\ hPc' = [hPc EXCEPT ![c] = "returned"]
    /\ hGot' = [hGot EXCEPT ![c] = colHandle]
    /\ UNCHANGED <<colHandle, hClient, setups>>
    /\ HandleFrame

\* vectorstore.ts 17-18: a client is made and getOrCreateCollection is called.
getCollection_Create(c) ==
    /\ hPc[c] = "start"
    /\ colHandle = 0
    /\ setups < MaxSetups
    /\ hClient' = c
    /\ setups' = setups + 1
    /\ hPc' = [hPc EXCEPT ![c] = "awaiting"]
    /\ UNCHANGED <<colHandle, hGot>>
    /\ HandleFrame

\* vectorstore.ts 18-23: the await resolves; the handle is assigned and returned.
getCollection_Resolved(c) ==
    /\ hPc[c] = "awaiting"
    /\ colHandle' = c
    /\ hPc' = [hPc EXCEPT ![c] = "returned"]
    /\ hGot' = [hGot EXCEPT ![c] = c]
    /\ UNCHANGED <<hClient, setups>>
    /\ HandleFrame

\* vectorstore.ts 18: the await rejects; collection is not assigned.
getCollection_Rejected(c) ==
    /\ hPc[c] = "awaiting"
    /\ hPc' = [hPc EXCEPT ![c] = "failed"]
    /\ UNCHANGED <<colHandle, hClient, setups, hGot>>
    /\ HandleFrame

\* The caller's operation is over and a later one calls getCollection.
getCollection_NextOperation(c) ==
    /\ hPc[c] \in {"returned", "failed"}
    /\ hPc' = [hPc EXCEPT ![c] = "start"]
    /\ UNCHANGED <<colHandle, hClient, setups, hGot>>
    /\ HandleFrame

HandleNext ==
    \/ \E c \in Callers : getCollection_Cached(c)
    \/ \E c \in Callers : getCollection_Create(c)
    \/ \E c \in Callers : getCollection_Resolved(c)
    \/ \E c \in Callers : getCollection_Rejected(c)
    \/ \E c \in Callers : getCollection_NextOperation(c)

HandleSpec == HandleInit /\ [][HandleNext]_vars

(* ---------------- slidingWindowChunk, step by step ----------------------- *)
(* chunkPages calls slidingWindowChunk(page.content, chunkSize,              *)
(* chunkOverlap) when options.semantic is false, and semanticChunkText      *)
(* calls it with the same sizes for a paragraph of more than chunkSize      *)
(* words; the text is given by its number of words.  wPc is one of          *)
(*   "idle"      no call is modelled                                         *)
(*   "call"      slidingWindowChunk has been called                          *)
(*   "loop"      the call is at its while test                               *)
(*   "returned"  the call returned wChunks                                   *)
(* The options are those with chunkOverlap <= chunkSize.  The chunks array  *)
(* grows without limit in a loop that does not end; the model records its   *)
(* first MaxWindows entries.                                                 *)
MaxWindows == 12

SlideWords == {20, 60, 120, 300, 550, 600}
SlideSizes == {30, 100, 300, 500}
SlideOverlaps == {0, 50, 100, 300}

\* Mutant: the window advances by chunkSize.
NextStart_NoOverlap(start, chunkSize, chunkOverlap) == start + chunkSize

\* chunker.ts 139: start += chunkSize - chunkOverlap
NextStart(start, chunkSize, chunkOverlap) == start + chunkSize - chunkOverlap

SlideFrame ==
    UNCHANGED <<inputVars, crawlVars, fetchVars, timerVars, toolVars, histVars, guardVars,
                deleteVars, searchVars, ingestVars, listVars, handleVars, embedVars,
                wWords, wSize, wOverlap>>

SlideInit ==
    /\ wPc = "call"
    /\ wWords \in SlideWords
    /\ wSize \in SlideSizes
    /\ wOverlap \in {o \in SlideOverlaps : o <= wSize}
    /\ wStart = 0
    /\ wChunks = <<>>
    /\ CrawlAndGuardIdle
    /\ DeleteIdle
    /\ SearchIdle
    /\ IngestIdle
    /\ ListIdle
    /\ HandleIdle
    /\ EmbedIdle

\* chunker.ts 122-129: a text of at most chunkSize words is returned whole.
slidingWindowChunk_Call ==
    /\ wPc = "call"
    /\ IF wWords <= wSize
       THEN /\ wChunks' = <<[from |-> 0, to |-> wWords]>>
            /\ wPc' = "returned"
       ELSE /\ wChunks' = <<>>
            /\ wPc' = "loop"
    /\ wStart' = 0
    /\ SlideFrame

\* chunker.ts 130, 145: the while test fails and chunks is returned.
slidingWindowChunk_Exit ==
    /\ wPc = "loop"
    /\ ~(wStart < wWords)
    /\ wPc' = "returned"
    /\ UNCHANGED <<wStart, wChunks>>
    /\ SlideFrame

\* chunker.ts 131-143: one iteration of the while loop.
slidingWindowChunk_Iterate ==
    /\ wPc = "loop"
    /\ wStart < wWords
    /\ \E end \in {Min(wStart + wSize, wWords)} :
       \E pushed \in {IF end > wStart /\ end - wStart >= MIN_CHUNK_SIZE
                      THEN (IF Len(wChunks) < MaxWindows
                            THEN Append(wChunks, [from |-> wStart, to |-> end])
                            ELSE wChunks)
                      ELSE wChunks} :
       \E next \in {NextStart(wStart, wSize, wOverlap)} :
          /\ wChunks' = pushed
          /\ wStart' = next
          /\ wPc' = IF next >= wWords - wOverlap /\ Len(pushed) > 0
                    THEN "returned" ELSE "loop"
    /\ SlideFrame

SlideNext ==
    \/ slidingWindowChunk_Call
    \/ slidingWindowChunk_Exit
    \/ slidingWindowChunk_Iterate

SlideSpec == SlideInit /\ [][SlideNext]_vars

\* The call is run to its end: a step that can be taken is taken.
FairSlideSpec == SlideSpec /\ WF_vars(SlideNext)

(* ---------------- generateEmbeddings, call by call ----------------------- *)
(* ePc is one of                                                             *)
(*   "idle"      no call is modelled                                         *)
(*   "loop"      generateEmbeddings is at its for test                       *)
(*   "awaiting"  it awaits Promise.all of the batch                          *)
(*   "sleep"     it awaits sleep(BATCH_DELAY_MS)                             *)
(*   "returned"  it returned eEmbeddings                                     *)
(*   "threw"     Promise.all rejected and the call with it                   *)
(* A generateEmbedding call is "flying" until it settles as "done" or        *)
(* "failed"; EMBED_BATCH_SIZE stands for config.ollama.batchSize.           *)
MaxTexts == 5

EmbedTexts == UNION { [1..n -> {"a", "b"}] : n \in 0..MaxTexts }

\* The calls of the batch that is awaited: the last ones started.
CurrentBatch ==
    {k \in 1..Len(eCalls) : k > Len(eCalls) - Min(EMBED_BATCH_SIZE, Len(eTexts) - eI)}

EmbedFrame ==
    UNCHANGED <<inputVars, crawlVars, fetchVars, timerVars, toolVars, histVars, guardVars,
                deleteVars, searchVars, ingestVars, listVars, handleVars, slideVars,
                eTexts>>

EmbedInit ==
    /\ ePc = "loop"
    /\ eTexts \in EmbedTexts
    /\ eI = 0
    /\ eCalls = <<>>
    /\ eEmbeddings = <<>>
    /\ eSlept = FALSE
    /\ CrawlAndGuardIdle
    /\ DeleteIdle
    /\ SearchIdle
    /\ IngestIdle
    /\ ListIdle
    /\ HandleIdle
    /\ SlideIdle

\* part_002 54-56: texts.slice(i, i + BATCH_SIZE) and one generateEmbedding
\* call per text of the batch, all started before the await.
generateEmbeddings_StartBatch ==
    /\ ePc = "loop"
    /\ eI < Len(eTexts)
    /\ \E batch \in {SubSeq(eTexts, eI + 1, Min(eI + EMBED_BATCH_SIZE, Len(eTexts)))} :
          eCalls' = eCalls \o
                      [k \in 1..Len(batch) |-> [text |-> batch[k], state |-> "flying"]]
    /\ ePc' = "awaiting"
    /\ eSlept' = FALSE
    /\ UNCHANGED <<eI, eEmbeddings>>
    /\ EmbedFrame

\* part_002 16-49: one generateEmbedding call settles, with a vector or with
\* an error; it may do so after Promise.all has rejected.
generateEmbedding_Settles ==
    /\ \E k \in 1..Len(eCalls) :
          /\ eCalls[k].state = "flying"
          /\ \E settled \in {"done", "failed"} :
                eCalls' = [eCalls EXCEPT ![k].state = settled]
    /\ UNCHANGED <<ePc, eI, eEmbeddings, eSlept>>
    /\ EmbedFrame

\* part_002 56-62: Promise.all resolves when every call of the batch has; the
\* vectors are appended in the order of the batch.
generateEmbeddings_BatchDone ==
    /\ ePc = "awaiting"
    /\ \A k \in CurrentBatch : eCalls[k].state = "done"
    /\ \E batch \in {SubSeq(eTexts, eI + 1, Min(eI + EMBED_BATCH_SIZE, Len(eTexts)))} :
          eEmbeddings' = eEmbeddings \o BatchResults(batch)
    /\ IF eI + EMBED_BATCH_SIZE < Len(eTexts)
       THEN /\ ePc' = "sleep"
            /\ UNCHANGED eI
       ELSE /\ ePc' = "loop"
            /\ eI' = eI + EMBED_BATCH_SIZE
    /\ UNCHANGED <<eCalls, eSlept>>
    /\ EmbedFrame

\* part_002 56: Promise.all rejects as soon as one call of the batch has.
generateEmbeddings_BatchFailed ==
    /\ ePc = "awaiting"
    /\ \E k \in CurrentBatch : eCalls[k].state = "failed"
    /\ ePc' = "threw"
    /\ UNCHANGED <<eI, eCalls, eEmbeddings, eSlept>>
    /\ EmbedFrame

\* part_002 60-62, 54: the sleep is over; i += BATCH_SIZE.
generateEmbeddings_Slept ==
    /\ ePc = "sleep"
    /\ eI' = eI + EMBED_BATCH_SIZE
    /\ eSlept' = TRUE
    /\ ePc' = "loop"
    /\ UNCHANGED <<eCalls, eEmbeddings>>
    /\ EmbedFrame

\* part_002 54, 65: the for test fails and embeddings is returned.
generateEmbeddings_Return ==
    /\ ePc = "loop"
    /\ ~(eI < Len(eTexts))
    /\ ePc' = "returned"
    /\ UNCHANGED <<eI, eCalls, eEmbeddings, eSlept>>
    /\ EmbedFrame

EmbedNext ==
    \/ generateEmbeddings_StartBatch
    \/ generateEmbedding_Settles
    \/ generateEmbeddings_BatchDone
    \/ generateEmbeddings_BatchFailed
    \/ generateEmbeddings_Slept
    \/ generateEmbeddings_Return

EmbedSpec == EmbedInit /\ [][EmbedNext]_vars

(***************************************************************************)
(* Properties                                                              *)
(***************************************************************************)

\* C1: every HTTP request of a crawl that is in flight (the request for a
\* dequeued URL or for a redirect target, and the read of its body) goes to
\* a URL that URL Guard does not block.
C1_RequestsPassGuard ==
    pc \in InFlightPcs => ~isBlockedUrl(reqUrl)

\* A redirect-hop request is in flight, after a first request to the
\* dequeued URL.
C1_Witness ==
    /\ pc = "req2"
    /\ reqCount = 2
    /\ resp1.hasLocation
    /\ reqUrl = Href(resp1.location)

\* The URL Guard policy as the specification words it.
OctetOf(l) == CHOOSE n \in 0..255 : l = ToString(n)

IsIpv4(h) == Len(h) = 4 /\ \A i \in 1..4 : IsDigits(h[i])

\* The first 16 bits of the address, and whether they fall in base/len.
InCidr16(h, base, len) ==
    LET top == OctetOf(h[1]) * 256 + OctetOf(h[2])
        shift == 2 ^ (16 - len)
    IN top \div shift = base \div shift

PolicyBlocked(u) ==
    \/ ~u.valid
    \/ LET h == LowerHost(u.host) IN
       \/ h \in { <<"localhost">>, <<"127", "0", "0", "1">>, <<"0", "0", "0", "0">>,
                  <<"[::1]">>, <<"metadata", "google", "internal">>,
                  <<"169", "254", "169", "254">> }
       \/ /\ IsIpv4(h)
          /\ \/ InCidr16(h, 10 * 256, 8)
             \/ InCidr16(h, 172 * 256 + 16, 12)
             \/ InCidr16(h, 192 * 256 + 168, 16)
       \/ Len(h) >= 2 /\ h[Len(h)] \in {"local", "internal"}
    \/ u.port # "" /\ u.port \notin {"80", "443"}

\* C2: isBlocked(url) is true exactly when the URL fails to parse, its
\* hostname is on the exact blocklist, in 10.0.0.0/8, 172.16.0.0/12 or
\* 192.168.0.0/16, under .local or .internal, or it carries an explicit port
\* other than 80 or 443.
C2_GuardIsPolicy ==
    gDone => (gBlocked <=> PolicyBlocked(gUrl))

Is3xx(r) == r.status >= 300 /\ r.status <= 399

\* C3: for one dequeued URL at most two requests are issued; the second only
\* after a 3xx first response whose Location passes URL Guard, and to that
\* target; a 3xx answer to the second request yields null, no third request.
C3_AtMostTwoRequests ==
    [][ /\ reqCount' <= 2
        /\ reqCount' = 2 =>
              /\ Is3xx(resp1') /\ resp1'.hasLocation
              /\ ~isBlockedUrl(Href(resp1'.location))
              /\ reqUrl' = Href(resp1'.location)
        /\ (pc = "req2" /\ resp2' # resp2 /\ Is3xx(resp2')) =>
              /\ outcome' = "null"
              /\ pages' = pages
              /\ requests' = requests
              /\ pc' \notin InFlightPcs ]_vars

\* The redirect hop was itself answered by a 3xx.
C3_Witness ==
    /\ pc \in {"sleep", "loop"}
    /\ reqCount = 2
    /\ Is3xx(resp2) /\ resp2.hasLocation
    /\ outcome = "null"

BlockedMessage == "URL is not allowed: internal or private network detected"

\* C4: when URL Guard blocks the start URL, no HTTP request is ever issued
\* and nothing is written to the store; crawlWebsite fails as a whole, and
\* crawlAndIndex returns success=false, pagesIndexed=0, chunksCreated=0.
C4_BlockedStartIsFatal ==
    isBlockedUrl(startUrl) =>
        /\ requests = 0
        /\ storeCount = 0
        /\ pc \notin InFlightPcs \cup {"returned", "index"}
        /\ pc = "result" =>
              /\ ~result.success
              /\ result.pagesIndexed = 0
              /\ result.chunksCreated = 0

\* crawlAndIndex has reported a start URL that crawlWebsite refused.
C4_Witness ==
    /\ mode = "tool"
    /\ pc = "result"
    /\ startUrl.valid
    /\ isBlockedUrl(startUrl)
    /\ result.error = BlockedMessage

\* C5: an error while one dequeued URL is fetched (transport error, timeout,
\* parse error) does not abort the crawl: the pages collected so far stay,
\* the queue keeps its remaining items and the loop goes on.
C5_FetchErrorIsSkipped ==
    [][ (outcome' = "error" /\ outcome # "error") =>
            /\ pages' = pages
            /\ pc' = "loop"
            /\ queue' = queue \/ (pc = "loop" /\ queue' = Tail(queue)) ]_vars

\* A fetch has failed with pages collected before it and items still queued.
C5_Witness ==
    /\ outcome = "error"
    /\ pc = "loop"
    /\ Len(pages) >= 1
    /\ Len(queue) >= 1

DepthBound == Min(GivenMaxDepth, 5)

C7_PageCap ==
    /\ [](Len(pages) <= EffectiveMaxPages)
    /\ [][ (pc \notin {"init", "avail", "enter"} /\ Len(pages) >= EffectiveMaxPages)
             => /\ Len(queue') >= Len(queue)
                /\ requests' = requests ]_vars

\* The crawl returned a full result with URLs still queued.
C7_Witness ==
    /\ pc = "returned"
    /\ Len(pages) = EffectiveMaxPages
    /\ Len(queue) > 0

(* The link graph of the site, over URL strings. *)
Range(f) == {f[i] : i \in DOMAIN f}

LinksOf(u) == Range(parsePage(u, SiteHtml(site, Href(u))).links)

RECURSIVE Within(_)
Within(k) ==
    IF k <= 0 THEN {startUrl}
    ELSE LET W == Within(k - 1) IN W \cup UNION {LinksOf(u) : u \in W}

RECURSIVE Closure(_)
Closure(S) ==
    LET T == S \cup UNION {LinksOf(u) : u \in S}
    IN IF T = S THEN S ELSE Closure(T)

Reachable == Closure({startUrl})

Dist(u) == CHOOSE k \in 0..Cardinality(Reachable) :
               u \in Within(k) /\ (k = 0 \/ u \notin Within(k - 1))

SameDomainPageLink(l) ==
    /\ l.valid
    /\ ~isBlockedUrl(l)
    /\ l.scheme \in {"http", "https"}
    /\ ~l.hash
    /\ ToLowerCase(l.ext) \notin BinaryExts
    /\ LET h == LowerHost(l.host)
           d == LowerHost(startUrl.host)
       IN h = d \/ IsSuffixHost(h, d)

\* The site and the run that C8 speaks of.
C8_Pre ==
    /\ pc \in {"returned", "index"}
    /\ allOk
    /\ ~optDomains.given
    /\ \A u \in Reachable : \A l \in LinksOf(u) : SameDomainPageLink(l)
    /\ Cardinality(Reachable) < EffectiveMaxPages

PagesAre(d) ==
    /\ {pages[i].url : i \in 1..Len(pages)} = Within(d)
    /\ Len(pages) = Cardinality(Within(d))
    /\ \A i \in 1..Len(pages) : pages[i].depth = Dist(pages[i].url)
    /\ \A i \in 1..(Len(pages) - 1) : pages[i].depth <= pages[i + 1].depth

\* C8 as stated: crawl(start, maxDepth=d) returns exactly the pages within
\* link distance d of the start page, in non-decreasing depth order.
C8_Original == C8_Pre => PagesAre(GivenMaxDepth)

\* C8 as amended: ... within link distance min(d, 5) of the start page.
C8_BreadthFirstResult == C8_Pre => PagesAre(DepthBound)

\* A crawl of a site with a diamond and a back link returned pages of three
\* different depths.
C8_Witness ==
    /\ C8_Pre
    /\ site = "diamond"
    /\ GivenMaxDepth = 2
    /\ Len(pages) = 4

\* C9: a crawl terminates, also on a site whose links form cycles; no URL of
\* the visited set is enqueued again or fetched again as a dequeued URL.
C9_TerminatesNoRevisit ==
    /\ <>(pc \in FinalPcs)
    /\ [][ /\ \A i \in (Len(queue) + 1)..Len(queue') : queue'[i].url \notin visited
           /\ (pc = "loop" /\ requests' > requests) => reqUrl' \notin visited ]_vars

\* A crawl of a site with a cycle has ended: some returned page links back to
\* a page that had been visited.
C9_Witness ==
    /\ pc \in FinalPcs
    /\ \E i \in 1..Len(pages) : \E j \in 1..Len(pages) :
          /\ i < j
          /\ pages[i].url \in Range(pages[j].links)
          /\ pages[j].url \in Range(pages[i].links)

\* C10: after each completed fetch the inter-request delay elapses before
\* the next fetch is issued: the request for a dequeued URL is issued only
\* when a sleep has completed since the request before it.
C10_DelayBetweenFetches ==
    [][ (pc = "loop" /\ requests' > requests) => sinceDelay = 0 ]_vars

\* C11: at most one HTTP request (with its body read) is in flight at a time:
\* a fetch is pending exactly while a request or body read is awaited, a
\* request is issued only when none is pending or as the redirect hop of a
\* first request already answered by a 3xx, and a URL is dequeued only after
\* the previous fetch has returned a page, returned null or raised an error.
C11_SingleFlight ==
    /\ [](pc \in InFlightPcs <=> outcome = "pending")
    /\ [][ /\ requests' > requests =>
                /\ requests' = requests + 1
                /\ \/ outcome # "pending"
                   \/ pc = "req1" /\ Is3xx(resp1') /\ pc' = "req2"
           /\ Len(queue') < Len(queue) =>
                /\ pc = "loop"
                /\ outcome \in {"none", "page", "null", "error"} ]_vars

\* A second URL is being requested after an earlier fetch returned a page.
C11_Witness ==
    /\ pc = "req1"
    /\ requests >= 2
    /\ Len(pages) >= 1
    /\ outcome = "pending"

\* The records of the collection at call time that match the target.
Matching(r) == UrlStartsWith(r.url, getBaseUrl(dUrl))

NotMatching(r) == ~Matching(r)

\* C12: when deleteByUrl(target) has returned, every record whose stored url
\* starts with the target's base URL is gone, every other record is still
\* there (in its order), and the number returned (and reported by
\* deleteSource) is the number of records removed.
C12_DeleteAllAndOnlyMatching ==
    /\ dPc = "returned" =>
          /\ collection = SelectSeq(collection0, NotMatching)
          /\ totalDeleted = Len(SelectSeq(collection0, Matching))
          /\ totalDeleted = Len(collection0) - Len(collection)
    /\ (dPc = "result" /\ dResult.success) =>
          /\ collection = SelectSeq(collection0, NotMatching)
          /\ dResult.deletedChunks = Len(collection0) - Len(collection)

\* deleteByUrl returned from a collection of two full pages and one record,
\* whose first page matched in full and which held both matching records
\* after it and records that do not match.
C12_Witness ==
    /\ dPc = "returned"
    /\ Len(collection0) = 2 * BATCH_SIZE + 1
    /\ \A i \in 1..BATCH_SIZE : Matching(collection0[i])
    /\ \E i \in (BATCH_SIZE + 1)..Len(collection0) : Matching(collection0[i])
    /\ \E i \in 1..(Len(collection0) - 1) :
          NotMatching(collection0[i]) /\ Matching(collection0[i + 1])
    /\ \E i \in 1..Len(collection0) : collection0[i].url = DocLong

\* 1 / (k + i + 1) for the 0-based rank i, in units of 1 / RrfUnit.
ReciprocalRank(i) == RrfUnit \div (60 + i + 1)

RECURSIVE RankSum(_, _, _)
RankSum(list, key, i) ==
    IF i > Len(list) THEN 0
    ELSE (IF list[i].key = key THEN ReciprocalRank(i - 1) ELSE 0)
         + RankSum(list, key, i + 1)

\* The sum over the two ranked lists of the reciprocal ranks of a key.
RrfScore(key) == RankSum(semanticResults, key, 1) + RankSum(keywordResults, key, 1)

KeysOf(list) == {list[i].key : i \in 1..Len(list)}

\* C13: the fused list gives each dedup key the sum over the two lists of
\* 1/(k+i+1) for the 0-based ranks i at which it appears, is sorted by that
\* sum descending and is cut to topK; for A=[x,y,z], B=[y,x,w], k=60 the
\* scores of x and y are 1/61+1/62 and that of w is 1/63.
C13_FusionScores ==
    (fused /\ ~topK.nan) =>
        LET out == sResult.results
            all == KeysOf(semanticResults) \cup KeysOf(keywordResults)
        IN /\ \A i \in 1..Len(out) : out[i].score = RrfScore(out[i].key)
           /\ \A i, j \in 1..Len(out) : i < j =>
                 /\ out[i].key # out[j].key
                 /\ out[i].score >= out[j].score
           /\ KeysOf(out) \subseteq all
           /\ Len(out) = Min(SliceEnd(topK), Cardinality(all))
           /\ \A key \in all \ KeysOf(out) :
                 \A i \in 1..Len(out) : RrfScore(key) <= out[i].score
           /\ ( /\ [i \in 1..Len(semanticResults) |-> semanticResults[i].key]
                      = <<"x", "y", "z">>
                /\ [i \in 1..Len(keywordResults) |-> keywordResults[i].key]
                      = <<"y", "x", "w">>
                /\ SliceEnd(topK) >= 4 ) =>
                 \E ix, iy, iw \in 1..Len(out) :
                    /\ out[ix].key = "x" /\ out[iy].key = "y" /\ out[iw].key = "w"
                    /\ out[ix].score = RrfUnit \div 61 + RrfUnit \div 62
                    /\ out[iy].score = out[ix].score
                    /\ out[iw].score = RrfUnit \div 63
                    /\ \A d \in {61, 62, 63} : (RrfUnit \div d) * d = RrfUnit

\* The fusion of A=[x,y,z] and B=[y,x,w] at topK=4 has been returned.
C13_Witness ==
    /\ fused
    /\ sPc = "result"
    /\ [i \in 1..Len(semanticResults) |-> semanticResults[i].key] = <<"x", "y", "z">>
    /\ [i \in 1..Len(keywordResults) |-> keywordResults[i].key] = <<"y", "x", "w">>
    /\ topK = Num(4)
    /\ Len(sResult.results) = 4

\* The stored record a search result was made from.
RecordOf(hit) ==
    CHOOSE rec \in {sCollection[i] : i \in 1..Len(sCollection)} : rec.id = hit.id

\* A hybrid search has returned, and the top-ranked lexical result is a chunk
\* whose stored keywords contain every token of the query.
C14_Pre ==
    /\ sPc = "result"
    /\ fused
    /\ ~topK.nan
    /\ Len(keywordResults) > 0
    /\ Len(sInput.query.words) > 0
    /\ \A i \in 1..Len(sInput.query.words) :
          sInput.query.words[i] \in RecordOf(keywordResults[1]).keywords

Occurrences(list, key) == Cardinality({i \in 1..Len(list) : list[i].key = key})

\* The other results that can rank above the top lexical result: the top
\* semantic result, and those found at more than one rank of the two lists.
Rivals ==
    { key \in (KeysOf(semanticResults) \cup KeysOf(keywordResults))
                 \ {keywordResults[1].key} :
         \/ Len(semanticResults) > 0 /\ semanticResults[1].key = key
         \/ Occurrences(semanticResults, key) + Occurrences(keywordResults, key) >= 2 }

\* C14 as stated: that chunk is among the topK results returned.
C14_Original ==
    C14_Pre => keywordResults[1].key \in KeysOf(sResult.results)

\* C14 as amended: that chunk has a fused score of at least 1/(k+1), and it
\* is among the topK results returned whenever fewer than topK other results
\* are the top semantic result or found at more than one rank of the lists.
C14_TopLexicalIsReturned ==
    C14_Pre =>
        /\ RrfScore(keywordResults[1].key) >= RrfUnit \div 61
        /\ Cardinality(Rivals) < SliceEnd(topK) =>
              \E i \in 1..Len(sResult.results) :
                 /\ sResult.results[i].key = keywordResults[1].key
                 /\ i <= Cardinality(Rivals) + 1

\* The chunk is returned, below a rival, without being in the semantic list.
C14_Witness ==
    /\ C14_Pre
    /\ keywordResults[1].key \notin KeysOf(semanticResults)
    /\ Cardinality(Rivals) >= 1
    /\ Cardinality(Rivals) < SliceEnd(topK)
    /\ \E i \in 2..Len(sResult.results) :
          sResult.results[i].key = keywordResults[1].key

\* A search with hybrid = false has returned its results.
C15_Pre ==
    /\ sPc = "result"
    /\ sInput.query.kind = "text"
    /\ sInput.hybrid = "false"

\* The semantic result list: one entry for each (url, first 100 characters)
\* key among the hits, with the highest score a hit of that key has, sorted
\* by score descending.
SemanticListIsRanked ==
    /\ KeysOf(semanticResults) = KeysOf(allResults)
    /\ \A i, j \in 1..Len(semanticResults) :
          /\ i # j => semanticResults[i].key # semanticResults[j].key
          /\ i < j => semanticResults[i].score >= semanticResults[j].score
    /\ \A i \in 1..Len(semanticResults) :
          /\ \E h \in 1..Len(allResults) :
                /\ allResults[h].key = semanticResults[i].key
                /\ allResults[h].score = semanticResults[i].score
          /\ \A h \in 1..Len(allResults) :
                allResults[h].key = semanticResults[i].key =>
                    allResults[h].score <= semanticResults[i].score

\* C15: with hybrid = false the results returned are exactly the first topK
\* entries of the semantic result list (deduplicated by key keeping the
\* highest score, sorted by score descending); the store is not scanned for
\* keywords and nothing is fused.
C15_SemanticOnly ==
    C15_Pre =>
        /\ SemanticListIsRanked
        /\ ~topK.nan =>
              /\ Len(sResult.results) =
                    IF topK.twice \div 2 <= Len(semanticResults)
                    THEN topK.twice \div 2 ELSE Len(semanticResults)
              /\ \A i \in 1..Len(sResult.results) :
                    sResult.results[i] = semanticResults[i]
        /\ sResult.totalResults = Len(sResult.results)
        /\ scans = 0
        /\ kOffset = 0
        /\ allScored = <<>>
        /\ keywordResults = <<>>
        /\ ~fused

\* Query expansion gave hits of one key with different scores, the list is
\* longer than topK, and a record of the store matches the query's keywords.
C15_Witness ==
    /\ C15_Pre
    /\ ~topK.nan
    /\ Len(allResults) > Len(semanticResults)
    /\ Len(semanticResults) > Len(sResult.results)
    /\ Len(sResult.results) >= 2
    /\ Len(sInput.query.words) > 0
    /\ \E i \in 1..Len(sCollection) :
          MatchScore(sCollection[i], sInput.query.words) > 0

\* C16: every entry point returns a result object for every input and every
\* failure of the embedding backend or the vector store; no error escapes
\* to the caller.  Here for the search entry point: a call of searchDocs
\* never ends by throwing.
C16_NoExceptionEscapes ==
    sPc # "threw"

\* C17: when the embedding backend or the vector store fails during a call,
\* the error field returned is a fixed generic message, never the raw text
\* of the error the backend produced.  Here for the delete entry point.
C17_GenericError ==
    dPc = "result" =>
        dResult.error \in { "", "Invalid URL",
                            "No documents found matching this URL",
                            "Unknown error" }

\* C18: an empty or whitespace-only query is reported as a failure with a
\* descriptive error field in the returned object, with empty results and
\* totalResults = 0.
C18_EmptyQueryIsFailure ==
    (sPc = "result" /\ TrimmedIsEmpty(sInput.query)) =>
        /\ sResult.hasError
        /\ sResult.error # ""
        /\ sResult.results = <<>>
        /\ sResult.totalResults = 0

\* searchSimilar has been called with the topK computed from a top_k that
\* is a number.
TopKPassed ==
    /\ sPc \notin {"idle", "call"}
    /\ sInput.query.kind = "text"
    /\ sInput.top_k.given = "number"

\* The topK passed on is in [1, MAX_TOP_K] and bounds the results returned.
TopKInRange ==
    /\ ~topK.nan
    /\ 2 * 1 <= topK.twice
    /\ topK.twice <= 2 * 100
    /\ sPc = "result" => 2 * Len(sResult.results) <= topK.twice

\* C19: for every numeric top_k given to the search entry point, the topK
\* passed to the retrieval engine lies in [1, MAX_TOP_K], MAX_TOP_K = 100,
\* and the number of results returned is at most that topK.
C19_TopKClamped ==
    TopKPassed => TopKInRange

\* The same for every top_k other than NaN.
TopKClampedUnlessNaN ==
    (TopKPassed /\ ~sInput.top_k.num.nan) => TopKInRange

\* max_depth is given and is not a non-negative integer.
BadMaxDepth ==
    \/ optMaxDepth.kind = "frac"
    \/ optMaxDepth.kind = "int" /\ optMaxDepth.val < 0

\* The URL does not parse, or its scheme is not http or https.
NotHttpUrl ==
    \/ ~ParseUrl(startUrl).ok
    \/ ParseUrl(startUrl).protocol \notin {"http", "https"}

\* success = false with zero counts, and nothing was stored.
FailedWithoutEffect(res, stored) ==
    /\ res.success = FALSE
    /\ res.pagesIndexed = 0
    /\ res.chunksCreated = 0
    /\ res.error # ""
    /\ stored = 0

\* C20: crawlAndIndex returns success = false with pagesIndexed = 0 and
\* chunksCreated = 0 and leaves the store unchanged whenever max_depth is
\* non-integer or negative, the URL is not http(s), the embedding backend is
\* unavailable, or the crawl yields no page; in the first three cases no
\* request is sent to the target site, and the availability check always
\* comes before the first crawl request.
C20_FailureFrame ==
    /\ []((mode = "tool" /\ pc = "result" /\ (BadMaxDepth \/ NotHttpUrl)) =>
             /\ FailedWithoutEffect(result, storeCount)
             /\ requests = 0)
    /\ []((mode = "tool" /\ pc = "result" /\ Len(pages) = 0) =>
             FailedWithoutEffect(result, storeCount))
    /\ []((mode = "tool" /\ pc \in {"init", "avail"}) => requests = 0)
    /\ [][ /\ (pc = "avail" /\ pc' = "result") =>
                /\ FailedWithoutEffect(result', storeCount')
                /\ requests' = 0
           /\ (mode = "tool" /\ pc # "enter" /\ pc' = "enter") => pc = "avail"
           /\ (mode = "tool" /\ requests' > requests) =>
                pc \notin {"init", "avail", "enter"} ]_vars

\* The crawl of a valid URL sent requests and came back with no page.
C20_Witness ==
    /\ mode = "tool"
    /\ pc = "result"
    /\ ~BadMaxDepth
    /\ ~NotHttpUrl
    /\ Len(pages) = 0
    /\ requests > 0
    /\ result.error = "No pages found to index"

\* The ID and text of each chunk, in output order.
IdsAndTexts(list) ==
    [i \in 1..Len(list) |-> [id |-> list[i].id, text |-> list[i].text]]

\* The ID and stored text of each record.
IdsAndDocuments(col) ==
    {[id |-> col[i].id, document |-> col[i].document] : i \in 1..Len(col)}

\* The first ingestion put its chunks into the store.
FirstIngestionStored ==
    /\ round = 2
    /\ IdsOf(store1) = IdsOf(allChunks1)

C22_DistinctIds ==
    iPc \notin {"idle", "call"} =>
        \A i, j \in 1..Len(allChunks) :
           allChunks[i].id = allChunks[j].id =>
              /\ allChunks[i].metadata.url = allChunks[j].metadata.url
              /\ allChunks[i].metadata.chunkIndex = allChunks[j].metadata.chunkIndex

\* C23: for every chunk added to the store, the text sent to the embedding
\* service is the chunk's context, a blank line, then the chunk text, while
\* the document stored under the chunk's ID is the chunk text without the
\* context; the i-th embedding is stored with the i-th chunk's ID.
C23_ContextOnlyForEmbedding ==
    /\ []((iPc = "done" /\ ~iResult.threw) =>
             /\ Len(embedded) = Len(allChunks)
             /\ \A i \in 1..Len(allChunks) :
                   /\ allChunks[i].metadata.context # NoContext
                   /\ embedded[i] = [context |-> allChunks[i].metadata.context,
                                     text |-> allChunks[i].text]
                   /\ \E k \in 1..Len(store) : store[k].id = allChunks[i].id)
    /\ [][ (iPc = "embed" /\ iPc' = "done" /\ ~iResult'.threw) =>
              \A k \in 1..Len(store') :
                 (k > Len(store) \/ store'[k] # store[k]) =>
                    \E i \in 1..Len(allChunks) :
                       /\ store'[k].id = allChunks[i].id
                       /\ store'[k].document =
                             [context |-> NoContext, text |-> allChunks[i].text]
                       /\ store'[k].embedding = [of |-> embedded[i]] ]_vars

\* Chunks of two pages, embedded in more than one batch, have been stored.
C23_Witness ==
    /\ iPc = "done"
    /\ ~iResult.threw
    /\ round = 1
    /\ Len(iPages) = 2
    /\ Len(allChunks) > EMBED_BATCH_SIZE
    /\ Len(store) = Len(allChunks)

\* C27: every request the fetcher issues for one URL (the initial request,
\* the redirect-hop request and each body read) is bounded by the fetch
\* timeout: whenever such a request or body read is in progress, the timeout
\* is still armed.
C27_TimeoutArmed ==
    pc \in InFlightPcs => timerArmed

\* The response the fetcher judged last for the dequeued URL.
FinalResponse == IF resp2 # NoResp THEN resp2 ELSE resp1

\* C28: the fetcher yields a page only if the final response has a 2xx
\* status, an HTML Content-Type, a Content-Length (when present) within the
\* cap and a streamed body within the cap; in every other case that is not a
\* transport error it yields null, not an exception, and keeps nothing of
\* the body: an exception comes only from a request or a read that was
\* rejected, never from a response that was received.
C28_PageOrNull ==
    /\ [](outcome = "page" =>
             /\ FinalResponse.status \in 200..299
             /\ FinalResponse.html
             /\ FinalResponse.clen <= MAX_RESPONSE_SIZE_BYTES
             /\ readResponseWithLimit(FinalResponse) = "html")
    /\ [][ /\ (outcome = "pending" /\ outcome' = "error") =>
                UNCHANGED <<resp1, resp2>>
           /\ (outcome = "pending" /\ outcome' = "null") =>
                pages' = pages ]_vars

\* C30: in semantic chunking, whenever a chunk is closed because the next
\* paragraph would pass the target size, the trailing paragraphs carried
\* forward as the seed of the next chunk total at most chunkOverlap words.
C30_CarryWithinOverlap ==
    iPc \notin {"idle", "call"} /\ useSemantic(iOptions) =>
        \A i \in 1..Len(carried) :
            \A k \in 1..Len(carried[i]) :
                carried[i][k] <= chunkOverlapOf(iOptions)

\* The query tokens of the search call that a stored record contains, as
\* positions in the token list.
TokensIn(rec) ==
    {i \in 1..Len(sInput.query.words) :
        sInput.query.words[i] \in rec.keywords \cup rec.words}

MatchingRecords ==
    {i \in 1..Len(sCollection) : TokensIn(sCollection[i]) # {}}

\* keywordSearch has returned to searchSimilar with a numeric topK.
C29_Pre ==
    /\ sPc \in {"fuse", "result"}
    /\ sInput.query.kind = "text"
    /\ useHybrid
    /\ ~topK.nan

\* What keywordSearch has returned and read, once it is back in searchSimilar.
KeywordSearchReturned ==
    C29_Pre =>
        LET n == Len(sInput.query.words)
            len == Len(keywordResults)
        IN IF n = 0
           THEN keywordResults = <<>> /\ scans = 0 /\ kOffset = 0
           ELSE /\ len = Min(topK.twice, Cardinality(MatchingRecords))
                /\ \A j \in 1..len :
                      /\ \E i \in MatchingRecords :
                            /\ keywordResults[j].id = sCollection[i].id
                            /\ keywordResults[j].key = sCollection[i].key
                            /\ keywordResults[j].score * n
                                 = 100 * Cardinality(TokensIn(sCollection[i]))
                      /\ keywordResults[j].score > 0
                      /\ keywordResults[j].score <= 100
                /\ \A j, k \in 1..len :
                      /\ j < k => keywordResults[j].score >= keywordResults[k].score
                      /\ j # k => keywordResults[j].id # keywordResults[k].id
                /\ \A i \in MatchingRecords :
                      \/ \E j \in 1..len : keywordResults[j].id = sCollection[i].id
                      \/ \A j \in 1..len :
                            keywordResults[j].score * n
                              >= 100 * Cardinality(TokensIn(sCollection[i]))
                /\ kOffset = Len(sCollection)
                /\ scans = (Len(sCollection) \div BATCH_SIZE) + 1

\* C29: lexical search returns, for a query with n > 0 tokens, the records
\* with at least one matching token, each scored matches/n (above 0, at most
\* 1; the model counts in hundredths), sorted by score descending and cut to
\* 2 * topK, after reading every stored record exactly once in pages of
\* BATCH_SIZE; for a query without a token it returns the empty list and
\* does not read the store. While the scan goes on every page read so far was
\* a full page, and every read advances the offset by the page it returned.
C29_LexicalSearch ==
    /\ []KeywordSearchReturned
    /\ [](sPc = "keyword" => kOffset = BATCH_SIZE * scans)
    /\ [][scans' # scans =>
             /\ scans' = scans + 1
             /\ kOffset' = Min(kOffset + BATCH_SIZE, Len(sCollection))]_vars

\* A scan of several pages whose matching records have different scores and
\* are more than 2 * topK.
C29_Witness ==
    /\ C29_Pre
    /\ Len(sInput.query.words) > 1
    /\ scans > 2
    /\ Cardinality(MatchingRecords) > topK.twice
    /\ Len(keywordResults) >= 2
    /\ keywordResults[1].score > keywordResults[Len(keywordResults)].score

\* An empty token list.
C29_WitnessNoToken ==
    /\ C29_Pre
    /\ Len(sInput.query.words) = 0

\* The records of the collection that belong to a base URL, as positions.
RecordsOfBase(baseUrl) ==
    {i \in 1..Len(lCollection) : getBaseUrl(lCollection[i].url) = baseUrl}

RECURSIVE SumChunkCounts(_, _)
SumChunkCounts(sources, j) ==
    IF j > Len(sources) THEN 0
    ELSE sources[j].chunkCount + SumChunkCounts(sources, j + 1)

\* C25: listSources returns exactly one SourceInfo per distinct base URL
\* (scheme plus hostname) in the store, its pageCount the number of distinct
\* page URLs of that base and its chunkCount the number of its records, so
\* the chunkCounts sum to the collection size, whatever the size of the
\* collection relative to the page size BATCH_SIZE.
C25_OneSourcePerBase ==
    lPc = "returned" =>
        LET sources == lResult.sources IN
        /\ lResult.totalSources = Len(sources)
        /\ {sources[j].url : j \in 1..Len(sources)}
             = {getBaseUrl(lCollection[i].url) : i \in 1..Len(lCollection)}
        /\ \A j, k \in 1..Len(sources) : sources[j].url = sources[k].url => j = k
        /\ \A j \in 1..Len(sources) :
              /\ sources[j].pageCount
                   = Cardinality({lCollection[i].url : i \in RecordsOfBase(sources[j].url)})
              /\ sources[j].chunkCount = Cardinality(RecordsOfBase(sources[j].url))
        /\ SumChunkCounts(sources, 1) = Len(lCollection)

\* A listing of more than one page of records, with two sources, one of them
\* of two pages and of more chunks than pages.
C25_Witness ==
    /\ lPc = "returned"
    /\ Len(lCollection) > BATCH_SIZE
    /\ lResult.totalSources >= 2
    /\ \E j \in 1..Len(lResult.sources) :
          /\ lResult.sources[j].pageCount = 2
          /\ lResult.sources[j].chunkCount > 2

\* C26: the indexedAt of each SourceInfo returned by listSources is the most
\* recent indexedAt among the stored records of that base URL.
C26_MostRecentIndexedAt ==
    lPc = "returned" =>
        \A j \in 1..Len(lResult.sources) :
            \A i \in RecordsOfBase(lResult.sources[j].url) :
                lCollection[i].indexedAt <= lResult.sources[j].indexedAt

\* C24: under concurrent first use of the store handle initialization is
\* idempotent: the first caller performs the setup, early callers wait for
\* that same result instead of starting their own (at most one setup is in
\* flight, and none starts once a handle is there), and the handle of the
\* first successful initializer is the one retained.
C24_SingleInitialization ==
    /\ [](Cardinality({c \in DOMAIN hPc : hPc[c] = "awaiting"}) <= 1)
    /\ [][colHandle # 0 => colHandle' = colHandle]_vars

\* C37: chunkPages terminates for every page text and every caller-supplied
\* chunkSize and chunkOverlap, in the sliding-window strategy and in the
\* semantic strategy (which calls the sliding window for an oversized
\* paragraph): every call of slidingWindowChunk returns, each iteration
\* after which its loop goes on having moved the window start forward.
C37_Terminates ==
    /\ [][(wPc = "loop" /\ wPc' = "loop") => wStart' > wStart]_vars
    /\ <>(wPc = "returned")

\* slidingWindowChunk has returned for a text of more than chunkSize words
\* and an overlap below chunkSize.
C31_Pre ==
    /\ wPc = "returned"
    /\ wWords > wSize
    /\ wOverlap < wSize

\* C31: sliding-window chunking of a text of more than chunkSize words, with
\* overlap < chunkSize, yields at least 2 chunks when the text is long enough
\* for two windows of the minimum size (the window that starts chunkSize -
\* overlap words in has MIN_CHUNK_SIZE words or more); every chunk has at
\* least MIN_CHUNK_SIZE and at most chunkSize words; consecutive windows
\* start chunkSize - overlap words apart and share at most overlap words;
\* 600 words with chunkSize 500 and overlap 100 give 2 or more chunks.
C31_SlidingWindows ==
    C31_Pre =>
        /\ \A j \in 1..Len(wChunks) :
              /\ wChunks[j].to - wChunks[j].from >= MIN_CHUNK_SIZE
              /\ wChunks[j].to - wChunks[j].from <= wSize
              /\ 0 <= wChunks[j].from /\ wChunks[j].to <= wWords
        /\ \A j \in 1..(Len(wChunks) - 1) :
              /\ wChunks[j + 1].from - wChunks[j].from = wSize - wOverlap
              /\ wChunks[j].to - wChunks[j + 1].from <= wOverlap
        /\ (wSize >= MIN_CHUNK_SIZE
            /\ wWords - (wSize - wOverlap) >= MIN_CHUNK_SIZE) => Len(wChunks) >= 2
        /\ (wWords = 600 /\ wSize = 500 /\ wOverlap = 100) => Len(wChunks) >= 2

\* 600 words in windows of 500 with an overlap of 100.
C31_Witness ==
    /\ C31_Pre
    /\ wWords = 600 /\ wSize = 500 /\ wOverlap = 100
    /\ Len(wChunks) = 2
    /\ wChunks[2].from = 400

\* C38: every chunk produced by the semantic strategy has at most chunkSize
\* words, for every text and every chunkOverlap smaller than chunkSize.
C38_SemanticChunkWithinSize ==
    (/\ iPc \notin {"idle", "call"}
     /\ useSemantic(iOptions)
     /\ chunkOverlapOf(iOptions) < chunkSizeOf(iOptions)) =>
        \A i \in 1..Len(allChunks) :
            WordCount(allChunks[i].text) <= chunkSizeOf(iOptions)

\* The chunks chunkPages returned for page k of its input, as positions in
\* the output (the pages of one call have different URLs).
ChunksOf(k) ==
    {i \in 1..Len(allChunks) : allChunks[i].metadata.url = iPages[k].url}

\* C32: for every page passed to chunkPages that yields N chunks, the chunks
\* of that page carry chunkIndex 0, 1, ..., N-1 in output order, each exactly
\* once, and all carry totalChunks = N and the page's url and title; the
\* output holds the chunks of the pages in the order of the pages.
C32_ChunkIndexAndTotal ==
    iPc \notin {"idle", "call"} =>
        /\ \A i \in 1..Len(allChunks) : \E k \in 1..Len(iPages) : i \in ChunksOf(k)
        /\ \A k \in 1..Len(iPages) :
              \A i \in ChunksOf(k) :
                  /\ allChunks[i].metadata.totalChunks = Cardinality(ChunksOf(k))
                  /\ allChunks[i].metadata.title = iPages[k].title
                  /\ allChunks[i].metadata.chunkIndex
                       = Cardinality({j \in ChunksOf(k) : j < i})
        /\ \A k, l \in 1..Len(iPages) :
              k < l => \A i \in ChunksOf(k) : \A j \in ChunksOf(l) : i < j

\* Two pages, the first of several chunks, the second with chunks of its own.
C32_Witness ==
    /\ iPc \notin {"idle", "call"}
    /\ Len(iPages) = 2
    /\ Cardinality(ChunksOf(1)) >= 2
    /\ Cardinality(ChunksOf(2)) >= 1
    /\ allChunks[Len(allChunks)].metadata.totalChunks = Cardinality(ChunksOf(2))

InFlight == {k \in 1..Len(eCalls) : eCalls[k].state = "flying"}

\* C33: while the embeddings of a list of texts are generated, at most
\* batchSize embedding calls are in flight at any time; a batch is started
\* only after every call of the batch before it has completed and the
\* inter-batch delay has elapsed; the vectors returned are in the order of
\* the input texts, one per text.
C33_BatchedEmbedding ==
    /\ [](Cardinality(InFlight) <= EMBED_BATCH_SIZE)
    /\ [](ePc = "returned" =>
             /\ Len(eEmbeddings) = Len(eTexts)
             /\ \A i \in 1..Len(eTexts) : eEmbeddings[i] = [of |-> eTexts[i]])
    /\ [][Len(eCalls') > Len(eCalls) =>
             /\ \A k \in 1..Len(eCalls) : eCalls[k].state = "done"
             /\ eCalls # <<>> => eSlept
             /\ Len(eCalls') - Len(eCalls) <= EMBED_BATCH_SIZE]_vars

\* Three batches went through and the vectors of texts that differ within a
\* batch were returned.
C33_Witness ==
    /\ ePc = "returned"
    /\ Len(eTexts) = MaxTexts
    /\ Len(eCalls) = MaxTexts
    /\ eTexts[1] # eTexts[2]
    /\ \A k \in 1..Len(eCalls) : eCalls[k].state = "done"

\* C34: no page URL appears more than once in the sequence of pages of one
\* crawl, whatever the site's links and redirects are.
C34_NoPageTwice ==
    \A i, j \in 1..Len(pages) : pages[i].url = pages[j].url => i = j

\* The hostname of a URL is an allowed domain or a subdomain of one.
OnAllowlist(u) ==
    /\ u.valid
    /\ \E d \in domains :
          \/ ParseUrl(u).hostname = d
          \/ /\ Len(ParseUrl(u).hostname) > Len(d)
             /\ SubSeq(ParseUrl(u).hostname,
                       Len(ParseUrl(u).hostname) - Len(d) + 1,
                       Len(ParseUrl(u).hostname)) = d

\* C35: every page of a crawl result other than the start page has a URL on
\* the allowlist (by default the start URL's hostname), and no request of
\* the crawl other than those made for the start URL goes to a host outside
\* the allowlist.
C35_AllowlistOnly ==
    /\ [](\A i \in 1..Len(pages) : pages[i].depth > 0 => OnAllowlist(pages[i].url))
    /\ [][(requests' > requests /\ item'.depth > 0) => OnAllowlist(reqUrl')]_vars

\* C36: deleteByUrl(u) removes no record whose base URL (scheme plus
\* hostname) differs from the base URL of u: every other source that
\* listSources reports keeps its records, and so its chunk count.
C36_OtherSourcesKept ==
    dPc = "returned" =>
        \A i \in 1..Len(collection0) :
            getBaseUrl(collection0[i].url) # getBaseUrl(dUrl) =>
                \E j \in 1..Len(collection) : collection[j] = collection0[i]

NoKeyTwice(list) ==
    \A i, j \in 1..Len(list) : list[i].key = list[j].key => i = j

\* C40: in a hybrid search each dedup key (url plus the first 100 characters
\* of the text) gets at most one rank contribution from the semantic list
\* and at most one from the lexical list, so no fused score is above
\* 2/(k+1), and no two results returned share a dedup key.
C40_OneContributionPerList ==
    (sPc = "result" /\ fused) =>
        /\ NoKeyTwice(semanticResults)
        /\ NoKeyTwice(keywordResults)
        /\ \A i \in 1..Len(sResult.results) :
              sResult.results[i].score <= 2 * ReciprocalRank(0)
        /\ NoKeyTwice(sResult.results)

====
